---- MODULE Spec2Model ----
(***************************************************************************)
(* Pull-request change-diff reconstruction and inline-comment anchoring of *)
(* GitService (src/src/Services/GitService.ts).                            *)
(*                                                                         *)
(* Text is modelled as a sequence of tokens: a token is one character, or  *)
(* the decimal rendering of a number, or a fixed piece of literal text of  *)
(* a template.  A line is a token sequence without NL; a content string is *)
(* a token sequence that may hold NL.                                      *)
(***************************************************************************)
EXTENDS Integers, Sequences, FiniteSets, TLC

VARIABLES
  \* ---- diff engine (calculateUnifiedDiff + addInlineCommentGuidance) ----
  diffPc,            \* "input" | "done"
  originalContent,   \* text of the original blob
  currentContent,    \* text of the current blob
  changes,           \* result of findMeaningfulChanges
  unifiedDiff,       \* result of calculateUnifiedDiff
  diffContent        \* annotated diff text returned for the file

  ,
  \* ---- whole-file renderers (calculateAddedFileDiff, calculateDeletedFileDiff) ----
  renderPc,          \* "input" | "done"
  renderKind,        \* "added" | "deleted" once rendered
  renderInput,       \* text of the fetched blob
  renderOutput       \* the diffContent produced

  ,
  \* ---- addPullRequestInlineComment ----
  commentPc,         \* "start" | "resolved" | "creating" | "returned" | "thrown"
  commentParams,     \* params.path and params.position
  commentEntries,    \* changeEntries the remote holds for the pull request
  thread,            \* the thread passed to createThread, <<>> before the call
  createThreadCalls, \* number of createThread calls made
  commentError,      \* the error thrown by the service, <<>> when none
  commentResponse,   \* the response the tool gives its caller, <<>> before it
  commentCalls       \* the calls issued to the remote and the resolver, in order

  ,
  \* ---- getPullRequestFileChanges ----
  batchPc,           \* "start" | "running" | "returned" | "thrown"
  batchPath,         \* params.path, <<>> when not given
  batchEntries,      \* changeEntries the remote holds for the pull request
  tasks,             \* the per-file tasks of the Promise.all, in order
  batchResult,       \* the value returned, <<>> before the return
  batchResponse,     \* the parts of the text the tool formats from the value
  fetchFaults        \* whether the blob fetches of this run can fail

  ,
  \* ---- resolveRepositoryId, called by concurrent callers ----
  resolvePc,          \* per caller: "idle" | "listing" | "returned" | "thrown"
  resolveArgs,        \* per caller: repository and projectId of its current call
  resolveOutcome,     \* per caller: the ID its call returned, <<>> when none
  resolveError,       \* per caller: the error its call threw, <<>> when none
  listCalls,          \* per caller: listRepositories calls issued by its current call
  repositoryCache,    \* the Map of the service: cache key -> repository ID
  remoteRepositories, \* what the remote holds: project -> list of repositories
  remoteChanges,      \* number of times the remote list has changed
  callsStarted,       \* number of resolveRepositoryId calls started
  firstSuccess,       \* history: per cache key, the first ID a listing resolved
                      \* and whether another call for the key was listing then
  resolvedBefore      \* history: per caller, whether a listing had resolved the
                      \* key of its current call before the call started

  ,
  \* ---- one call of getFileContentByObjectId ----
  contentPc,          \* "calling" | "streaming" | "settled"
  remoteBlob,           \* the text of the blob the remote holds
  undelivered,        \* bytes of the blob the stream has not delivered yet
  chunks,             \* the chunks pushed by the 'data' handler, in order
  stream,             \* "none" | "open" | "ended" | "errored" | "destroyed"
  timeout,            \* the timer: "none" | "armed" | "cleared" | "fired"
  clock,              \* milliseconds passed since the timer was set
  contentOutcome,     \* how the promise of the call settled, <<>> before
  lateEvents          \* history: the stream events handled after the timer fired

  ,
  \* ---- one call of findMeaningfulChanges, iteration by iteration ----
  findPc,             \* "idle" | "loop" | "returned"
  findOriginalLines,  \* originalLines
  findCurrentLines,   \* currentLines
  originalIndex,      \* 0-based cursor in originalLines
  currentIndex,       \* 0-based cursor in currentLines
  segments,           \* the array `changes` of the call
  iterations,         \* number of iterations of the outer loop begun
  lastIteration       \* history: what the last iteration did, and from where

diffVars == <<diffPc, originalContent, currentContent, changes, unifiedDiff, diffContent>>
renderVars == <<renderPc, renderKind, renderInput, renderOutput>>

commentVars == <<commentPc, commentParams, commentEntries, thread, createThreadCalls,
                 commentError, commentResponse, commentCalls>>

batchVars == <<batchPc, batchPath, batchEntries, tasks, batchResult, batchResponse,
               fetchFaults>>

resolveVars == <<resolvePc, resolveArgs, resolveOutcome, resolveError, listCalls,
                 repositoryCache, remoteRepositories, remoteChanges, callsStarted,
                 firstSuccess, resolvedBefore>>

contentVars == <<contentPc, remoteBlob, undelivered, chunks, stream, timeout, clock,
                 contentOutcome, lateEvents>>

findVars == <<findPc, findOriginalLines, findCurrentLines, originalIndex, currentIndex,
              segments, iterations, lastIteration>>

vars == <<diffVars, renderVars, commentVars, batchVars, resolveVars, contentVars, findVars>>

-----------------------------------------------------------------------------
(* Bounds of the model *)

\* longest line sequence of the family over the four texts a, b, c, x
MaxLinesWide == 3
\* longest line sequence of the family over the two texts a, b
MaxLinesDeep == 5
\* longest line sequence of the whitespace family
MaxLinesWs == 2
\* longest original sequence of the insertion family
MaxInsertBase == 2
\* most lines inserted in the insertion family (one more than the window)
MaxInsert == 6
\* largest number that a rendered decimal token can hold
MaxNum == 300
\* most lines of a file given to the whole-file renderers
MaxRenderLines == 252
\* most change entries of the pull request that is commented on
MaxCommentEntries == 2
\* most change entries of the pull request whose file changes are requested
MaxBatchEntries == 2
\* most change entries of the pull request that a selection is made from
MaxSelectEntries == 6
\* number of concurrent callers of resolveRepositoryId
MaxCallers == 2
\* most resolveRepositoryId calls started in a run
MaxResolveCalls == 3
\* most changes of the remote repository list in a run
MaxRemoteChanges == 1
\* most lines of a file of the family whose lines begin with dashes or plus signs
MaxLinesDash == 2
\* most lines of a sequence of the three-text family given to findMeaningfulChanges
MaxFindLines == 3
\* most lines of a sequence of the whitespace family given to findMeaningfulChanges
MaxFindWsLines == 1

-----------------------------------------------------------------------------
(* Strings *)

NL == "\n"
SP == " "
TAB == "\t"

\* the characters matched by \s
Whitespace == {SP, TAB}

\* the concatenation of a sequence of sequences (by halves, which keeps the
\* evaluation shallow on long inputs)
RECURSIVE Flatten(_)
Flatten(ss) ==
  IF Len(ss) = 0 THEN <<>>
  ELSE IF Len(ss) = 1 THEN ss[1]
  ELSE LET h == Len(ss) \div 2
       IN Flatten(SubSeq(ss, 1, h)) \o Flatten(SubSeq(ss, h + 1, Len(ss)))

\* Array.prototype.join('\n')
RECURSIVE JoinLines(_)
JoinLines(ls) ==
  IF Len(ls) = 0 THEN <<>>
  ELSE IF Len(ls) = 1 THEN ls[1]
  ELSE LET h == Len(ls) \div 2
       IN JoinLines(SubSeq(ls, 1, h)) \o <<NL>> \o JoinLines(SubSeq(ls, h + 1, Len(ls)))

\* String.prototype.split('\n'): the pieces between the separators; a string
\* without separator, the empty string included, gives one piece.  The pieces
\* of a string are those of its two halves, the last piece of the first half
\* being continued by the first piece of the second
RECURSIVE SplitLines(_)
SplitLines(s) ==
  IF Len(s) = 0 THEN << <<>> >>
  ELSE IF Len(s) = 1 THEN (IF s[1] = NL THEN << <<>>, <<>> >> ELSE <<s>>)
  ELSE LET h == Len(s) \div 2
           l == SplitLines(SubSeq(s, 1, h))
           r == SplitLines(SubSeq(s, h + 1, Len(s)))
       IN SubSeq(l, 1, Len(l) - 1) \o <<l[Len(l)] \o r[1]>> \o SubSeq(r, 2, Len(r))

\* String.prototype.startsWith
StartsWith(s, p) == Len(s) >= Len(p) /\ SubSeq(s, 1, Len(p)) = p

\* Number.prototype.toString / template interpolation of a number
NumTok(n) == ToString(n)

NumToks == {NumTok(n) : n \in 0..MaxNum}

\* parseInt of a (\d+) group
ParseInt(t) == CHOOSE n \in 0..MaxNum : NumTok(n) = t

Max(a, b) == IF a > b THEN a ELSE b
Min(a, b) == IF a < b THEN a ELSE b

-----------------------------------------------------------------------------
(* normalizeLineForComparison *)

RECURSIVE TrimStart(_)
TrimStart(s) ==
  IF s # <<>> /\ Head(s) \in Whitespace THEN TrimStart(Tail(s)) ELSE s

RECURSIVE TrimEnd(_)
TrimEnd(s) ==
  IF s # <<>> /\ s[Len(s)] \in Whitespace
  THEN TrimEnd(SubSeq(s, 1, Len(s) - 1)) ELSE s

\* String.prototype.trim
Trim(s) == TrimEnd(TrimStart(s))

\* a replace(/\s/g, ' ') that turns each whitespace character into a space
RECURSIVE CollapseWhitespace_PerChar(_)
CollapseWhitespace_PerChar(s) ==
  IF s = <<>> THEN <<>>
  ELSE IF Head(s) \in Whitespace
       THEN <<SP>> \o CollapseWhitespace_PerChar(Tail(s))
       ELSE <<Head(s)>> \o CollapseWhitespace_PerChar(Tail(s))

\* replace(/\s+/g, ' '): every maximal run of whitespace becomes one space
RECURSIVE CollapseWhitespace(_)
CollapseWhitespace(s) ==
  IF s = <<>> THEN <<>>
  ELSE IF Head(s) \in Whitespace
       THEN <<SP>> \o CollapseWhitespace(TrimStart(s))
       ELSE <<Head(s)>> \o CollapseWhitespace(Tail(s))

normalizeLineForComparison(line) == CollapseWhitespace(Trim(line))

-----------------------------------------------------------------------------
(* findMeaningfulChanges *)

\* a window one line shorter
lookAhead_Short == 5 - 1

\* let lookAhead = 5
lookAhead == 5

\* the inner while loop: skip identical lines; cursors are 0-based
RECURSIVE SkipIdentical(_, _, _, _)
SkipIdentical(O, C, oi, ci) ==
  IF /\ oi < Len(O)
     /\ ci < Len(C)
     /\ normalizeLineForComparison(O[oi + 1]) = normalizeLineForComparison(C[ci + 1])
  THEN SkipIdentical(O, C, oi + 1, ci + 1)
  ELSE [oi |-> oi, ci |-> ci]

\* the test made for one offset pair of the look-ahead scan
MatchesAt(O, C, oi, ci, origOffset, currOffset) ==
  /\ oi + origOffset < Len(O)
  /\ ci + currOffset < Len(C)
  /\ normalizeLineForComparison(O[oi + origOffset + 1])
       = normalizeLineForComparison(C[ci + currOffset + 1])

\* the offset pairs with the inner loop running over the current-side offset
ScanOrder_CurrentFirst ==
  Flatten([ahead \in 1..lookAhead |->
             [k \in 1..(ahead + 1) |-> [origOffset |-> ahead - (k - 1), currOffset |-> k - 1]]])

\* the offset pairs in the order of the two nested for loops
ScanOrder ==
  Flatten([ahead \in 1..lookAhead |->
             [k \in 1..(ahead + 1) |-> [origOffset |-> k - 1, currOffset |-> ahead - (k - 1)]]])

\* the first offset pair of the scan that matches, or <<>> when none does
RECURSIVE FirstMatch(_, _, _, _, _)
FirstMatch(O, C, oi, ci, n) ==
  IF n > Len(ScanOrder) THEN <<>>
  ELSE IF MatchesAt(O, C, oi, ci, ScanOrder[n].origOffset, ScanOrder[n].currOffset)
       THEN <<ScanOrder[n]>>
       ELSE FirstMatch(O, C, oi, ci, n + 1)

Segment(type, os, oe, cs, ce) ==
  [type |-> type, originalStart |-> os, originalEnd |-> oe,
   currentStart |-> cs, currentEnd |-> ce]

\* a segment whose end lines are taken one past the matched offsets
MatchedSegment_EndOffByOne(oi, ci, m) ==
  IF m.origOffset = 0 /\ m.currOffset > 0
  THEN Segment("added", oi + 1, oi + 1, ci + 1, ci + m.currOffset + 1)
  ELSE IF m.origOffset > 0 /\ m.currOffset = 0
  THEN Segment("removed", oi + 1, oi + m.origOffset + 1, ci + 1, ci + 1)
  ELSE Segment("modified", oi + 1, oi + m.origOffset + 1, ci + 1, ci + m.currOffset + 1)

\* the segment pushed when a match was found at the offsets m
MatchedSegment(oi, ci, m) ==
  IF m.origOffset = 0 /\ m.currOffset > 0
  THEN Segment("added", oi + 1, oi + 1, ci + 1, ci + m.currOffset)
  ELSE IF m.origOffset > 0 /\ m.currOffset = 0
  THEN Segment("removed", oi + 1, oi + m.origOffset, ci + 1, ci + 1)
  ELSE Segment("modified", oi + 1, oi + m.origOffset, ci + 1, ci + m.currOffset)

\* a segment of the first remaining line of each sequence only
RemainingSegment_OneLine(O, C, oi, ci) ==
  IF oi < Len(O) /\ ci < Len(C)
  THEN Segment("modified", oi + 1, oi + 1, ci + 1, ci + 1)
  ELSE IF oi < Len(O)
  THEN Segment("removed", oi + 1, oi + 1, ci + 1, ci + 1)
  ELSE Segment("added", oi + 1, oi + 1, ci + 1, ci + 1)

\* the segment pushed when no match was found within the window
RemainingSegment(O, C, oi, ci) ==
  IF oi < Len(O) /\ ci < Len(C)
  THEN Segment("modified", oi + 1, Len(O), ci + 1, Len(C))
  ELSE IF oi < Len(O)
  THEN Segment("removed", oi + 1, Len(O), ci + 1, ci + 1)
  ELSE Segment("added", oi + 1, oi + 1, ci + 1, Len(C))

\* the outer while loop
RECURSIVE FindLoop(_, _, _, _, _)
FindLoop(O, C, oi, ci, acc) ==
  IF ~(oi < Len(O) \/ ci < Len(C)) THEN acc
  ELSE LET s == SkipIdentical(O, C, oi, ci) IN
       IF s.oi >= Len(O) /\ s.ci >= Len(C) THEN acc
       ELSE LET m == FirstMatch(O, C, s.oi, s.ci, 1) IN
            IF m # <<>>
            THEN FindLoop(O, C, s.oi + m[1].origOffset, s.ci + m[1].currOffset,
                          Append(acc, MatchedSegment(s.oi, s.ci, m[1])))
            ELSE Append(acc, RemainingSegment(O, C, s.oi, s.ci))

findMeaningfulChanges(originalLines, currentLines) ==
  FindLoop(originalLines, currentLines, 0, 0, <<>>)

-----------------------------------------------------------------------------
(* calculateUnifiedDiff *)

\* import { VersionControlChangeType } from azure-devops-node-api
VersionControlChangeType == [Add |-> 1, Edit |-> 2, Delete |-> 16]

\* const contextLines = 3
contextLines == 3

\* the integers a..b in increasing order, as a sequence
Range(a, b) == IF b < a THEN <<>> ELSE [k \in 1..(b - a + 1) |-> a + k - 1]

\* `@@ -${a},${b} +${c},${d} @@`
HunkHeader(a, b, c, d) ==
  <<"@", "@", SP, "-", NumTok(a), ",", NumTok(b), SP,
    "+", NumTok(c), ",", NumTok(d), SP, "@", "@">>

\* one line of the diff with its provenance: for a line taken from a file,
\* orig/curr is its 0-based index in originalLines/currentLines, else -1
DiffEntry(text, kind, orig, curr) ==
  [text |-> text, kind |-> kind, orig |-> orig, curr |-> curr]

RemovedEntries(O, change) ==
  [k \in 1..(change.originalEnd - change.originalStart + 1) |->
     LET i == change.originalStart - 1 + (k - 1) IN
     DiffEntry(<<"-">> \o O[i + 1], "removed", i, -1)]

AddedEntries(C, change) ==
  [k \in 1..(change.currentEnd - change.currentStart + 1) |->
     LET i == change.currentStart - 1 + (k - 1) IN
     DiffEntry(<<"+">> \o C[i + 1], "added", -1, i)]

\* the body of the loop over the changes
HunkEntries(O, C, change, isLast) ==
  LET hunkStart == Max(1, change.originalStart - contextLines)
      originalHunkSize == change.originalEnd - change.originalStart + 1
      currentHunkSize == change.currentEnd - change.currentStart + 1
      header == DiffEntry(HunkHeader(change.originalStart, originalHunkSize,
                                     change.currentStart, currentHunkSize),
                          "hunk", -1, -1)
      beforeIdx == SelectSeq(Range(hunkStart - 1, change.originalStart - 2),
                             LAMBDA i : i >= 0 /\ i < Len(O))
      before == [k \in 1..Len(beforeIdx) |->
                   DiffEntry(<<SP>> \o O[beforeIdx[k] + 1], "context", beforeIdx[k], -1)]
      body == IF change.type = "modified"
              THEN RemovedEntries(O, change) \o AddedEntries(C, change)
              ELSE IF change.type = "added" THEN AddedEntries(C, change)
              ELSE IF change.type = "removed" THEN RemovedEntries(O, change)
              ELSE <<>>
      afterIdx == Range(change.originalEnd,
                        Min(change.originalEnd + contextLines, Len(O)) - 1)
      after == [k \in 1..Len(afterIdx) |->
                  DiffEntry(<<SP>> \o O[afterIdx[k] + 1], "context", afterIdx[k], -1)]
      separator == IF isLast THEN <<>> ELSE <<DiffEntry(<<>>, "separator", -1, -1)>>
  IN <<header>> \o before \o body \o after \o separator

\* the lines pushed to diffLines, in order
UnifiedDiffEntries(originalContent_, currentContent_, filePath) ==
  LET originalLines == SplitLines(originalContent_)
      currentLines == SplitLines(currentContent_)
      fileHeader == << DiffEntry(<<"-", "-", "-", SP, "a">> \o filePath, "file", -1, -1),
                       DiffEntry(<<"+", "+", "+", SP, "b">> \o filePath, "file", -1, -1) >>
      found == findMeaningfulChanges(originalLines, currentLines)
  IN IF Len(found) = 0
     THEN fileHeader \o
          << DiffEntry(HunkHeader(1, Len(originalLines), 1, Len(currentLines)), "hunk", -1, -1),
             DiffEntry(<<SP, "(No meaningful differences found - likely formatting changes)">>,
                       "note", -1, -1) >>
     ELSE fileHeader \o
          Flatten([n \in 1..Len(found) |->
                     HunkEntries(originalLines, currentLines, found[n], n = Len(found))])

calculateUnifiedDiff(originalContent_, currentContent_, filePath) ==
  LET entries == UnifiedDiffEntries(originalContent_, currentContent_, filePath)
  IN JoinLines([n \in 1..Len(entries) |-> entries[n].text])

-----------------------------------------------------------------------------
(* addInlineCommentGuidance *)

\* `  [<- ${n}, right]` and `  [<- ${n}, left]`
RightMarker(n) == <<SP, SP, "[<- ", NumTok(n), ", right]">>
LeftMarker(n) == <<SP, SP, "[<- ", NumTok(n), ", left]">>

\* line.match(/@@ -(\d+)(?:,(\d+))? \+(\d+)(?:,(\d+))? @@/) on a line that
\* starts with @@: the two start numbers, or <<>> when the line does not match
HunkMatch(line) ==
  LET afterLeft == IF Len(line) >= 7 /\ line[6] = "," /\ line[7] \in NumToks THEN 8 ELSE 6
      afterRight == IF Len(line) >= afterLeft + 4 /\ line[afterLeft + 3] = ","
                       /\ line[afterLeft + 4] \in NumToks
                    THEN afterLeft + 5 ELSE afterLeft + 3
  IN IF /\ Len(line) >= 5
        /\ SubSeq(line, 1, 4) = <<"@", "@", SP, "-">>
        /\ line[5] \in NumToks
        /\ Len(line) >= afterLeft + 2
        /\ line[afterLeft] = SP
        /\ line[afterLeft + 1] = "+"
        /\ line[afterLeft + 2] \in NumToks
        /\ Len(line) >= afterRight + 2
        /\ SubSeq(line, afterRight, afterRight + 2) = <<SP, "@", "@">>
     THEN <<ParseInt(line[5]), ParseInt(line[afterLeft + 2])>>
     ELSE <<>>

GuidanceHeader(changeType) ==
  IF changeType = VersionControlChangeType.Add
  THEN << <<"NEW FILE - All lines available for inline comments">>,
          <<"Use line numbers 1, 2, 3... etc. for addPullRequestInlineComment">>, <<>> >>
  ELSE IF changeType = VersionControlChangeType.Delete
  THEN << <<"DELETED FILE - Original line numbers available for comments">>,
          <<"Use original line numbers from deleted content for addPullRequestInlineComment">>,
          <<>> >>
  ELSE << <<"MODIFIED FILE - Both original (left) and new (right) lines available for comments">>,
          <<"Look for [<- line, left] and [<- line, right] markers for addPullRequestInlineComment">>,
          <<>> >>

GuidanceFooter(changeType) ==
  << <<>> >> \o
  (IF changeType = VersionControlChangeType.Add
   THEN << <<"**Usage:** Any line number from 1 to total lines can be used for inline comments">> >>
   ELSE IF changeType = VersionControlChangeType.Delete
   THEN << <<"**Usage:** Use original line numbers for commenting on deleted content">> >>
   ELSE << <<"**Usage:** Look for [<- line, left] or [<- line, right] markers above for valid line numbers">>,
           <<"**Left numbers:** Comment on original content (what was removed)">>,
           <<"**Right numbers:** Comment on new content (what was added or unchanged)">> >>)
  \o << <<"**Format:** addPullRequestInlineComment(position: {line: X, offset: 1})">> >>

\* the loop over the lines of the diff: out[n] holds the lines pushed to
\* enhancedLines for the n-th line of the diff
RECURSIVE GuidanceLoop(_, _, _, _, _, _)
GuidanceLoop(lines, n, rightLineNumber, leftLineNumber, inHunk, out) ==
  IF n > Len(lines) THEN out
  ELSE LET line == lines[n] IN
    IF StartsWith(line, <<"@", "@">>)
    THEN LET hunkMatch == HunkMatch(line) IN
         GuidanceLoop(lines, n + 1,
                      IF hunkMatch # <<>> THEN hunkMatch[2] ELSE rightLineNumber,
                      IF hunkMatch # <<>> THEN hunkMatch[1] ELSE leftLineNumber,
                      IF hunkMatch # <<>> THEN TRUE ELSE inHunk,
                      Append(out, <<line, <<"Lines below can be commented on:">> >>))
    ELSE IF StartsWith(line, <<"+">>) /\ ~StartsWith(line, <<"+", "+", "+">>)
    THEN GuidanceLoop(lines, n + 1, rightLineNumber + 1, leftLineNumber, inHunk,
                      Append(out, <<line \o RightMarker(rightLineNumber)>>))
    ELSE IF StartsWith(line, <<"-">>) /\ ~StartsWith(line, <<"-", "-", "-">>)
    THEN GuidanceLoop(lines, n + 1, rightLineNumber, leftLineNumber + 1, inHunk,
                      Append(out, <<line \o LeftMarker(leftLineNumber)>>))
    ELSE IF StartsWith(line, <<SP>>) /\ inHunk
    THEN GuidanceLoop(lines, n + 1, rightLineNumber + 1, leftLineNumber + 1, inHunk,
                      Append(out, <<line \o RightMarker(rightLineNumber)>>))
    ELSE GuidanceLoop(lines, n + 1, rightLineNumber, leftLineNumber, inHunk,
                      Append(out, <<line>>))

\* the annotation of each line of the diff, by position in the diff
GuidanceChunks(diffContent_) ==
  GuidanceLoop(SplitLines(diffContent_), 1, 1, 1, FALSE, <<>>)

addInlineCommentGuidance(diffContent_, changeType) ==
  JoinLines(GuidanceHeader(changeType)
            \o Flatten(GuidanceChunks(diffContent_))
            \o GuidanceFooter(changeType))

-----------------------------------------------------------------------------
(* calculateAddedFileDiff and calculateDeletedFileDiff *)

\* const maxLinesToShow = 250 (added file) and 100 (deleted file)
maxLinesToShowAdded == 250
maxLinesToShowDeleted == 100

\* lines.slice(0, 50)
SliceFirst50(lines) == SubSeq(lines, 1, Min(50, Len(lines)))

\* lines.slice(-10)
SliceLast10(lines) == SubSeq(lines, Max(1, Len(lines) - 9), Len(lines))

\* lineNumber.toString().padStart(4, ' ')
PadStart4(n) ==
  LET digits == IF n < 10 THEN 1 ELSE IF n < 100 THEN 2 ELSE IF n < 1000 THEN 3 ELSE 4
  IN [k \in 1..(4 - digits) |-> SP] \o <<NumTok(n)>>

\* `${sign}${padded lineNumber}: ${line}  [<- ${lineNumber}, ${side}]`
NumberedLine(sign, side, lineNumber, line) ==
  <<sign>> \o PadStart4(lineNumber) \o <<":", SP>> \o line
    \o <<SP, SP, "[<- ", NumTok(lineNumber), ", " \o side \o "]">>

\* a last-lines numbering that forgets the + 1
TailLineNumber_ZeroBased(total, lastCount, index) == total - lastCount + index

\* const lineNumber = lines.length - lastLines.length + index + 1
TailLineNumber(total, lastCount, index) == total - lastCount + index + 1

\* the numbered lines of both renderers; summaryText is the wording of the
\* summary of the hidden lines
NumberedBody(lines, sign, side, maxLinesToShow, summaryText) ==
  IF Len(lines) > maxLinesToShow
  THEN LET firstLines == SliceFirst50(lines)
           lastLines == SliceLast10(lines)
           hiddenLineCount == Len(lines) - Len(firstLines) - Len(lastLines)
           startHidden == Len(firstLines) + 1
           endHidden == Len(lines) - Len(lastLines)
       IN [k \in 1..Len(firstLines) |-> NumberedLine(sign, side, k, firstLines[k])]
          \o (IF hiddenLineCount > 0
              THEN << <<sign, "...", SP, "(", NumTok(hiddenLineCount), SP, summaryText, SP,
                        NumTok(startHidden), "-", NumTok(endHidden),
                        ", all commentable) ...">> >>
              ELSE <<>>)
          \o [k \in 1..Len(lastLines) |->
                NumberedLine(sign, side,
                             TailLineNumber(Len(lines), Len(lastLines), k - 1), lastLines[k])]
  ELSE [k \in 1..Len(lines) |-> NumberedLine(sign, side, k, lines[k])]

EmptyAddedFileDiff(filePath) ==
  JoinLines(<< <<"-", "-", "-", SP, "/dev/null">>,
               <<"+", "+", "+", SP, "b">> \o filePath,
               <<"@", "@", SP, "-", NumTok(0), ",", NumTok(0), SP,
                 "+", NumTok(1), ",", NumTok(0), SP, "@", "@">>,
               <<"NEW FILE (Empty)">>,
               <<>>,
               <<"INLINE COMMENT LINES: None (empty file)">> >>)

calculateAddedFileDiff(content, filePath) ==
  LET lines == SplitLines(content) IN
  IF Len(lines) = 0 THEN EmptyAddedFileDiff(filePath)
  ELSE JoinLines(
         << <<"-", "-", "-", SP, "/dev/null">>,
            <<"+", "+", "+", SP, "b">> \o filePath,
            <<"@", "@", SP, "-", NumTok(0), ",", NumTok(0), SP,
              "+", NumTok(1), ",", NumTok(Len(lines)), SP, "@", "@">>,
            <<"NEW FILE (", NumTok(Len(lines)), " lines)">>,
            <<"INLINE COMMENT LINES: 1 to ", NumTok(Len(lines)), " (any line can be commented)">>,
            <<>> >>
         \o NumberedBody(lines, "+", "right", maxLinesToShowAdded, "more lines:")
         \o << <<>>,
               <<"**Usage:** addPullRequestInlineComment with position.line = 1 to ",
                 NumTok(Len(lines))>>,
               <<"**Tip:** All lines in new files can be commented on!">> >>)

EmptyDeletedFileDiff(filePath) ==
  JoinLines(<< <<"-", "-", "-", SP, "a">> \o filePath,
               <<"+", "+", "+", SP, "/dev/null">>,
               <<"@", "@", SP, "-", NumTok(1), ",", NumTok(0), SP,
                 "+", NumTok(0), ",", NumTok(0), SP, "@", "@">>,
               <<"DELETED FILE (Empty)">>,
               <<>>,
               <<"INLINE COMMENT LINES: None (empty file was deleted)">> >>)

calculateDeletedFileDiff(content, filePath) ==
  LET lines == SplitLines(content) IN
  IF Len(lines) = 0 THEN EmptyDeletedFileDiff(filePath)
  ELSE JoinLines(
         << <<"-", "-", "-", SP, "a">> \o filePath,
            <<"+", "+", "+", SP, "/dev/null">>,
            <<"@", "@", SP, "-", NumTok(1), ",", NumTok(Len(lines)), SP,
              "+", NumTok(0), ",", NumTok(0), SP, "@", "@">>,
            <<"DELETED FILE (", NumTok(Len(lines)), " lines removed)">>,
            <<"INLINE COMMENT LINES: 1 to ", NumTok(Len(lines)), " (comment on deleted content)">>,
            <<>> >>
         \o NumberedBody(lines, "-", "left", maxLinesToShowDeleted, "more deleted lines:")
         \o << <<>>,
               <<"**Usage:** addPullRequestInlineComment with position.line = 1 to ",
                 NumTok(Len(lines)), " (original line numbers)">>,
               <<"**Tip:** Comment on the original content before it was deleted!">> >>)

-----------------------------------------------------------------------------
(* addPullRequestInlineComment *)

\* const normalizePath = path.startsWith('/') ? path.substring(1) : path
normalizePath(path) == IF StartsWith(path, <<"/">>) THEN Tail(path) ELSE path

\* changes.changeEntries?.find(...): the first entry with a path that equals
\* the requested path after normalization, as a sequence of at most one entry
RECURSIVE FindChangeEntry(_, _, _)
FindChangeEntry(entries, requestPath, n) ==
  IF n > Len(entries) THEN <<>>
  ELSE IF entries[n].path # <<>> /\ normalizePath(entries[n].path) = normalizePath(requestPath)
       THEN <<entries[n]>>
       ELSE FindChangeEntry(entries, requestPath, n + 1)

\* a file position of the thread context; null is the position with null set
NullPosition == [null |-> TRUE, line |-> 0, offset |-> 0]
Position(line, offset) == [null |-> FALSE, line |-> line, offset |-> offset]

\* a thread context that anchors a deleted file on the right side
ThreadContext_DeletedOnRight(changeEntry, params) ==
  [filePath |-> params.path,
   leftFileStart |-> NullPosition,
   leftFileEnd |-> NullPosition,
   rightFileStart |-> Position(params.line, params.offset),
   rightFileEnd |-> Position(params.line, params.offset + 1)]

\* the threadContext built from the change type of the matched entry
ThreadContext(changeEntry, params) ==
  IF changeEntry.changeType = VersionControlChangeType.Add
  THEN [filePath |-> params.path,
        leftFileStart |-> NullPosition,
        leftFileEnd |-> NullPosition,
        rightFileStart |-> Position(params.line, params.offset),
        rightFileEnd |-> Position(params.line, params.offset + 1)]
  ELSE IF changeEntry.changeType = VersionControlChangeType.Delete
  THEN [filePath |-> params.path,
        leftFileStart |-> Position(params.line, params.offset),
        leftFileEnd |-> Position(params.line, params.offset + 1),
        rightFileStart |-> NullPosition,
        rightFileEnd |-> NullPosition]
  ELSE [filePath |-> params.path,
        leftFileStart |-> NullPosition,
        leftFileEnd |-> NullPosition,
        rightFileStart |-> Position(params.line, params.offset),
        rightFileEnd |-> Position(params.line, params.offset + 1)]

\* a thread that carries the changeTrackingId of the first entry of the list
Thread_FirstTrackingId(changeEntry, params) ==
  [threadContext |-> ThreadContext(changeEntry, params),
   changeTrackingId |-> 1]

\* the thread passed to createThread
Thread(changeEntry, params) ==
  [threadContext |-> ThreadContext(changeEntry, params),
   changeTrackingId |-> changeEntry.changeTrackingId]

\* an error: where it was raised, whether it has a message (its own or the
\* one of its response), which of the phrases tested by the catch blocks of
\* the service and of the tool the message contains, and its status
Error(source, hasMessage, words, status) ==
  [source |-> source, hasMessage |-> hasMessage, words |-> words, status |-> status,
   translated |-> FALSE]

\* the errors a remote call can reject with
RemoteErrors(source) ==
  { Error(source, TRUE, {}, 500), Error(source, TRUE, {"line"}, 500),
    Error(source, TRUE, {"invalid"}, 400), Error(source, TRUE, {}, 400),
    Error(source, FALSE, {}, 400), Error(source, FALSE, {}, 500) }

\* the errors thrown by resolveRepositoryId
ResolveErrors == { Error("resolveRepositoryId", TRUE, {}, 0) }

\* the error thrown when no change entry matches: its text says that the file
\* "is not part of the changes", names 'getPullRequestFileChanges' and speaks
\* of "line numbers"
NotInPullRequestError ==
  Error("notInPullRequest", TRUE,
        {"line", "line number", "not part of the changes", "getPullRequestFileChanges"}, 0)

\* the catch block: the error thrown to the caller for a caught error
CatchInlineComment(error) ==
  IF /\ error.hasMessage
     /\ \/ error.words \cap {"line", "position", "range", "invalid"} # {}
        \/ error.status = 400
  THEN [error EXCEPT !.translated = TRUE]
  ELSE error

\* the phrases of the text "Unable to add inline comment at line ..." thrown
\* by the catch block, before its last line "Original error: ..."
DiagnosticPhrases ==
  {"line", "position", "range", "line number", "line position", "getPullRequestFileChanges"}

\* the phrases that error.message of the error thrown by the service holds
MessagePhrases(error) ==
  IF error.translated THEN DiagnosticPhrases \cup error.words
  ELSE IF error.hasMessage THEN error.words
  ELSE {}

\* the tool: the response for a result of the service
ToolSuccessResponse == [kind |-> "success", isError |-> FALSE]

\* the tool: the catch block, which picks the response by the text of the
\* message of the error thrown by the service
ToolErrorResponse(error) ==
  IF "not part of the changes" \in MessagePhrases(error)
  THEN [kind |-> "cannotAddInlineComment", isError |-> FALSE]
  ELSE IF MessagePhrases(error)
            \cap {"line number", "getPullRequestFileChanges", "line position"} # {}
       THEN [kind |-> "invalidLinePosition", isError |-> FALSE]
       ELSE [kind |-> "errorResponse", isError |-> TRUE]

-----------------------------------------------------------------------------
(* getFileContentByObjectId and getPullRequestFileChanges *)

ContentNotAvailable == <<"[Content not available]">>
DiffNotAvailable == <<"[Diff not available]">>

\* the ways a blob fetch can go: the content arrives (as a buffer, a string
\* or a stream that ends), the getBlobContent call rejects, the content has
\* an unknown shape, the stream emits an error, or the stream times out
FetchOutcomes == {"content", "call_error", "unknown_shape", "stream_error", "stream_timeout"}

\* a fetch whose rejected call is not caught inside the function
getFileContentByObjectId_Rethrow(how, text) ==
  IF how = "content" THEN [settled |-> "fulfilled", value |-> text]
  ELSE IF how = "unknown_shape" THEN [settled |-> "fulfilled", value |-> ContentNotAvailable]
  ELSE [settled |-> "rejected", value |-> <<>>]

\* how the promise of getFileContentByObjectId settles: the catch block turns
\* a rejected getBlobContent call into the placeholder text, a promise made
\* for a stream is returned without await and rejects past the catch block
getFileContentByObjectId(how, text) ==
  IF how = "content" THEN [settled |-> "fulfilled", value |-> text]
  ELSE IF how \in {"call_error", "unknown_shape"}
       THEN [settled |-> "fulfilled", value |-> ContentNotAvailable]
       ELSE [settled |-> "rejected", value |-> <<>>]

\* how the promise of getFileContentByObjectId settles when its stream fails
\* with an error: the promise made for the stream rejects with that error
StreamFailure(how, error) ==
  IF getFileContentByObjectId(how, <<>>).settled = "rejected"
  THEN [settled |-> "rejected", value |-> error]
  ELSE getFileContentByObjectId(how, <<>>)

\* the branch of the per-file task taken for a change entry
TaskBranch(change) ==
  IF change.changeType = 2 /\ change.originalObjectId # "" /\ change.objectId # ""
  THEN "modified"
  ELSE IF change.changeType = 1 /\ change.objectId # "" THEN "added"
  ELSE IF change.changeType = 3 /\ change.originalObjectId # "" THEN "deleted"
  ELSE "none"

\* the per-file task up to its first await: the blob fetches it has issued
StartTask(change) ==
  LET branch == TaskBranch(change) IN
  [change |-> change,
   branch |-> branch,
   fetch |-> [original |-> IF branch \in {"modified", "deleted"} THEN "pending" ELSE "none",
              current |-> IF branch \in {"modified", "added"} THEN "pending" ELSE "none"],
   value |-> [original |-> <<>>, current |-> <<>>],
   pc |-> IF branch = "none" THEN "fulfilled" ELSE "fetching",
   diffContent |-> <<>>]

\* a per-file task without its try/catch: the rejection leaves the task
TaskAfterReject_NoCatch(task) ==
  [task EXCEPT !.pc = "rejected"]

\* the catch block of the branch of the task
TaskAfterReject(task) ==
  [task EXCEPT !.pc = "fulfilled",
               !.diffContent = IF task.branch = "modified" THEN DiffNotAvailable
                               ELSE ContentNotAvailable]

\* the task once all its fetches are fulfilled
TaskAfterContent(task) ==
  [task EXCEPT
     !.pc = "fulfilled",
     !.diffContent =
        IF task.branch = "modified"
        THEN addInlineCommentGuidance(
               calculateUnifiedDiff(task.value.original, task.value.current, task.change.path),
               task.change.changeType)
        ELSE IF task.branch = "added"
        THEN calculateAddedFileDiff(task.value.current, task.change.path)
        ELSE calculateDeletedFileDiff(task.value.original, task.change.path)]

\* the task after one of its fetches has settled
TaskAfterFetch(task, which, how, text) ==
  LET settled == getFileContentByObjectId(how, text)
      t == [task EXCEPT !.fetch[which] = how, !.value[which] = settled.value]
  IN IF settled.settled = "rejected" THEN TaskAfterReject(t)
     ELSE IF t.fetch.original # "pending" /\ t.fetch.current # "pending"
          THEN TaskAfterContent(t)
          ELSE t

\* changes.changeEntries?.filter(...) of the request for one path
FilterByPath(allChanges, requestPath) ==
  SelectSeq(allChanges,
            LAMBDA entry : entry.path # <<>>
                           /\ normalizePath(entry.path) = normalizePath(requestPath))

\* array.slice(0, n)
Take(sq, n) == SubSeq(sq, 1, Min(n, Len(sq)))

\* the smart selection of the request without path: up to two modified, two
\* added and one deleted entry, filled up to five with the remaining ones
SmartSelection(allChanges) ==
  LET modifiedFiles == SelectSeq(allChanges, LAMBDA c : c.changeType = 2)
      addedFiles == SelectSeq(allChanges, LAMBDA c : c.changeType = 1)
      deletedFiles == SelectSeq(allChanges, LAMBDA c : c.changeType = 3)
      picked == Take(modifiedFiles, 2) \o Take(addedFiles, 2) \o Take(deletedFiles, 1)
      remainingFiles == SelectSeq(allChanges,
                                  LAMBDA c : \A n \in 1..Len(picked) : picked[n] # c)
      filled == IF Len(picked) < 5
                THEN picked \o Take(remainingFiles, 5 - Len(picked))
                ELSE picked
  IN Take(filled, 5)

\* a variant that reports the number of processed entries as the total
BatchReturnValue_TotalIsProcessed(requestPath, allChanges, doneTasks) ==
  [changeEntries |-> [n \in 1..Len(doneTasks) |->
                        [change |-> doneTasks[n].change,
                         diffContent |-> doneTasks[n].diffContent]],
   hasTotals |-> requestPath = <<>>,
   totalChanges |-> IF requestPath = <<>> THEN Len(doneTasks) ELSE 0,
   processedChanges |-> IF requestPath = <<>> THEN Len(doneTasks) ELSE 0]

\* the value returned once every task is fulfilled
BatchReturnValue(requestPath, allChanges, doneTasks) ==
  [changeEntries |-> [n \in 1..Len(doneTasks) |->
                        [change |-> doneTasks[n].change,
                         diffContent |-> doneTasks[n].diffContent]],
   hasTotals |-> requestPath = <<>>,
   totalChanges |-> IF requestPath = <<>> THEN Len(allChanges) ELSE 0,
   processedChanges |-> IF requestPath = <<>> THEN Len(doneTasks) ELSE 0]

\* the tool: the parts of the text formatted from the value returned by the
\* service that depend on the number of entries: the text for no changes, the
\* note on the files shown, and the number of file sections
formatPullRequestFileChanges(data) ==
  IF Len(data.changeEntries) = 0
  THEN [noFileChanges |-> TRUE, note |-> <<>>, sections |-> 0]
  ELSE [noFileChanges |-> FALSE,
        note |-> IF /\ data.hasTotals
                    /\ data.totalChanges # 0
                    /\ data.processedChanges # 0
                    /\ data.totalChanges > data.processedChanges
                 THEN <<"**Note:** Showing detailed diffs for ", NumTok(data.processedChanges),
                        " of ", NumTok(data.totalChanges), " files (limited for performance)">>
                 ELSE <<>>,
        sections |-> Len(data.changeEntries)]

-----------------------------------------------------------------------------
(* getFileContentByObjectId: buffers, streams and the timer *)

\* the delay of the timer set for a stream, in milliseconds
streamTimeoutMs == 30000

\* the UTF-8 encoding of the characters of the texts
Utf8Bytes(char) ==
  IF char = "a" THEN <<97>>
  ELSE IF char = "b" THEN <<98>>
  ELSE IF char = NL THEN <<10>>
  ELSE <<195, 169>>

\* the characters with an encoding above; the last one takes two bytes
Utf8Chars == {"a", "b", NL, "e'"}

\* the bytes of a text
RECURSIVE Utf8Encode(_)
Utf8Encode(text) ==
  IF text = <<>> THEN <<>> ELSE Utf8Bytes(Head(text)) \o Utf8Encode(Tail(text))

\* the character U+FFFD that a decoder puts for bytes that are no encoding
ReplacementChar == "U+FFFD"

\* buffer.toString('utf8'): the characters of the byte sequence, with the
\* replacement character for a byte that starts no complete encoding
RECURSIVE Utf8Decode(_)
Utf8Decode(bytes) ==
  IF bytes = <<>> THEN <<>>
  ELSE IF \E char \in Utf8Chars : StartsWith(bytes, Utf8Bytes(char))
       THEN LET char == CHOOSE ch \in Utf8Chars : StartsWith(bytes, Utf8Bytes(ch))
            IN <<char>> \o Utf8Decode(SubSeq(bytes, Len(Utf8Bytes(char)) + 1, Len(bytes)))
       ELSE <<ReplacementChar>> \o Utf8Decode(Tail(bytes))

\* Buffer.concat(chunks)
RECURSIVE BufferConcat(_)
BufferConcat(chunkList) ==
  IF chunkList = <<>> THEN <<>> ELSE Head(chunkList) \o BufferConcat(Tail(chunkList))

\* a text made by decoding every chunk by itself
RECURSIVE StreamText_PerChunk(_)
StreamText_PerChunk(chunkList) ==
  IF chunkList = <<>> THEN <<>>
  ELSE Utf8Decode(Head(chunkList)) \o StreamText_PerChunk(Tail(chunkList))

\* the 'end' handler: Buffer.concat(chunks).toString('utf8')
StreamText(chunkList) == Utf8Decode(BufferConcat(chunkList))

\* new Error(`Stream timeout for objectId ${objectId}`)
StreamTimeoutError == [kind |-> "timeout", message |-> <<"Stream timeout for objectId ", "o1">>]

\* the error the stream emits
StreamError == [kind |-> "stream", message |-> <<"aborted">>]

\* the shapes of what getBlobContent is fulfilled with
ContentShapes == {"buffer", "string", "stream", "other"}

-----------------------------------------------------------------------------
(* resolveRepositoryId and isRepositoryId *)

HexDigits ==
  {"0", "1", "2", "3", "4", "5", "6", "7", "8", "9", "a", "b", "c", "d", "e", "f"}

UpperCaseLetters ==
  <<"A", "B", "C", "D", "E", "F", "G", "H", "I", "J", "K", "L", "M",
    "N", "O", "P", "Q", "R", "S", "T", "U", "V", "W", "X", "Y", "Z">>
LowerCaseLetters ==
  <<"a", "b", "c", "d", "e", "f", "g", "h", "i", "j", "k", "l", "m",
    "n", "o", "p", "q", "r", "s", "t", "u", "v", "w", "x", "y", "z">>

\* String.prototype.toLowerCase, character by character
ToLowerCase(s) ==
  [i \in 1..Len(s) |->
     IF \E n \in 1..Len(UpperCaseLetters) : UpperCaseLetters[n] = s[i]
     THEN LowerCaseLetters[CHOOSE n \in 1..Len(UpperCaseLetters) : UpperCaseLetters[n] = s[i]]
     ELSE s[i]]

\* the GUID pattern without its flag i: lower-case hexadecimal digits only
isRepositoryId_CaseSensitive(value) ==
  /\ Len(value) = 36
  /\ \A i \in 1..36 :
       IF i \in {9, 14, 19, 24} THEN value[i] = "-" ELSE value[i] \in HexDigits

\* /^[a-f0-9]{8}-[a-f0-9]{4}-[a-f0-9]{4}-[a-f0-9]{4}-[a-f0-9]{12}$/i
isRepositoryId(value) ==
  /\ Len(value) = 36
  /\ \A i \in 1..36 :
       IF i \in {9, 14, 19, 24} THEN value[i] = "-"
       ELSE ToLowerCase(<<value[i]>>)[1] \in HexDigits

\* this.config.project
ConfigProject == <<"P">>

\* projectId || this.config.project; the projectId that is not given is <<>>
ProjectScope(projectId) == IF projectId = <<>> THEN ConfigProject ELSE projectId

\* a cache key without the project scope
CacheKey_NameOnly(repository, projectId) == repository

\* `${projectId || this.config.project}:${repository}`
CacheKey(repository, projectId) == ProjectScope(projectId) \o <<":">> \o repository

\* Map.prototype.has and Map.prototype.get
CacheHas(cache, key) == key \in DOMAIN cache
CacheGet(cache, key) == cache[key]

\* a resolver that does not store what it has resolved
CacheSet_Skip(cache, key, id) == cache

\* Map.prototype.set
CacheSet(cache, key, id) ==
  [k \in DOMAIN cache \cup {key} |-> IF k = key THEN id ELSE cache[k]]

\* repositories.find(repo => repo.name && repo.name.toLowerCase() ===
\* repository.toLowerCase()), as a sequence of at most one repository; a
\* repository without name has the name <<>>
RECURSIVE FindRepository(_, _, _)
FindRepository(repositories, repository, n) ==
  IF n > Len(repositories) THEN <<>>
  ELSE IF /\ repositories[n].name # <<>>
          /\ ToLowerCase(repositories[n].name) = ToLowerCase(repository)
       THEN <<repositories[n]>>
       ELSE FindRepository(repositories, repository, n + 1)

\* names.join(', ')
RECURSIVE JoinNames(_)
JoinNames(names) ==
  IF names = <<>> THEN <<>>
  ELSE IF Len(names) = 1 THEN names[1]
  ELSE names[1] \o <<", ">> \o JoinNames(Tail(names))

\* the error thrown when no repository of the listing has the name
RepositoryNotFoundError(repository, projectId, repositories) ==
  [kind |-> "notFound",
   message |-> <<"Repository '">> \o repository \o <<"' not found in project '">>
               \o ProjectScope(projectId) \o <<"'. Available repositories: ">>
               \o JoinNames([n \in 1..Len(repositories) |-> repositories[n].name])]

\* the error thrown by the catch block for an error of another kind
FailedToResolveError(repository) ==
  [kind |-> "failedToResolve",
   message |-> <<"Failed to resolve repository '">> \o repository
               \o <<"'. Please verify the repository name exists and you have access to it.">>]

\* the errors listRepositories can reject with; the message of one of them
\* holds the words "not found"
RemoteNotFoundError == [kind |-> "remote", message |-> <<"project ", "not found">>]
RemoteUnavailableError == [kind |-> "remote", message |-> <<"service unavailable">>]

\* error.message.includes('not found')
IncludesNotFound(error) ==
  \/ error.kind = "notFound"
  \/ \E n \in 1..Len(error.message) : error.message[n] = "not found"

\* a catch block that wraps every error
CatchResolve_WrapAll(error, repository) == FailedToResolveError(repository)

\* the catch block of resolveRepositoryId: the error that is thrown on
CatchResolve(error, repository) ==
  IF IncludesNotFound(error) THEN error ELSE FailedToResolveError(repository)

-----------------------------------------------------------------------------
(* The diff engine applied to the two versions of one Modified file *)

\* change.item.path of the file that is diffed
FilePath == <<"/", "f">>

\* the non-empty line sequences of at most n lines over the given texts
LineSeqs(texts, n) == UNION {[1..k -> texts] : k \in 1..n}

WideTexts == { <<"a">>, <<"b">>, <<"c">>, <<"x">> }
DeepTexts == { <<"a">>, <<"b">> }
WsTexts == { <<"a", SP, "b">>, <<"a", SP, TAB, "b">>, <<SP, "a", SP, "b", TAB>>,
             <<"a", "b">>, <<>> }
InsertedTexts == { <<"x">>, <<"a">> }
\* lines whose text begins with two dashes or two plus signs
DashTexts == { <<"-", "-", "x">>, <<"+", "+", "y">>, <<"a">> }

\* B is A with the lines X inserted after its first p lines
InsertLines(A, p, X) == SubSeq(A, 1, p) \o X \o SubSeq(A, p + 1, Len(A))

\* the pairs of line sequences the engine is run on
DiffInputs ==
  UNION {
    LineSeqs(WideTexts, MaxLinesWide) \X LineSeqs(WideTexts, MaxLinesWide),
    LineSeqs(DashTexts, MaxLinesDash) \X LineSeqs(DashTexts, MaxLinesDash),
    LineSeqs(DeepTexts, MaxLinesDeep) \X LineSeqs(DeepTexts, MaxLinesDeep),
    LineSeqs(WsTexts, MaxLinesWs) \X LineSeqs(WsTexts, MaxLinesWs),
    { <<A, InsertLines(A, p, X)>> :
        <<A, p, X>> \in { t \in LineSeqs(DeepTexts, MaxInsertBase)
                                  \X (0..MaxInsertBase)
                                  \X LineSeqs(InsertedTexts, MaxInsert) :
                          t[2] <= Len(t[1]) } } }

IdleDiff ==
  /\ diffPc = "idle"
  /\ originalContent = <<>>
  /\ currentContent = <<>>
  /\ changes = <<>>
  /\ unifiedDiff = <<>>
  /\ diffContent = <<>>

IdleRender ==
  /\ renderPc = "idle"
  /\ renderKind = "none"
  /\ renderInput = <<>>
  /\ renderOutput = <<>>

IdleComment ==
  /\ commentPc = "idle"
  /\ commentParams = <<>>
  /\ commentEntries = <<>>
  /\ thread = <<>>
  /\ createThreadCalls = 0
  /\ commentError = <<>>
  /\ commentResponse = <<>>
  /\ commentCalls = <<>>

IdleBatch ==
  /\ batchPc = "idle"
  /\ batchPath = <<>>
  /\ batchEntries = <<>>
  /\ tasks = <<>>
  /\ batchResult = <<>>
  /\ batchResponse = <<>>
  /\ fetchFaults = FALSE

Callers == 1..MaxCallers

IdleResolve ==
  /\ resolvePc = [c \in Callers |-> "idle"]
  /\ resolveArgs = [c \in Callers |-> <<>>]
  /\ resolveOutcome = [c \in Callers |-> <<>>]
  /\ resolveError = [c \in Callers |-> <<>>]
  /\ listCalls = [c \in Callers |-> 0]
  /\ repositoryCache = <<>>
  /\ remoteRepositories = <<>>
  /\ remoteChanges = 0
  /\ callsStarted = 0
  /\ firstSuccess = <<>>
  /\ resolvedBefore = [c \in Callers |-> FALSE]

IdleContent ==
  /\ contentPc = "idle"
  /\ remoteBlob = <<>>
  /\ undelivered = <<>>
  /\ chunks = <<>>
  /\ stream = "none"
  /\ timeout = "none"
  /\ clock = 0
  /\ contentOutcome = <<>>
  /\ lateEvents = {}

NoIteration == [kind |-> "none", originalIndex |-> 0, currentIndex |-> 0,
                changeStartOriginal |-> 0, changeStartCurrent |-> 0,
                origOffset |-> 0, currOffset |-> 0]

IdleFind ==
  /\ findPc = "idle"
  /\ findOriginalLines = <<>>
  /\ findCurrentLines = <<>>
  /\ originalIndex = 0
  /\ currentIndex = 0
  /\ segments = <<>>
  /\ iterations = 0
  /\ lastIteration = NoIteration

InitDiff ==
  /\ IdleRender
  /\ IdleComment
  /\ IdleBatch
  /\ IdleResolve
  /\ IdleContent
  /\ IdleFind
  /\ diffPc = "input"
  /\ \E in \in DiffInputs :
       /\ originalContent = JoinLines(in[1])
       /\ currentContent = JoinLines(in[2])
  /\ changes = <<>>
  /\ unifiedDiff = <<>>
  /\ diffContent = <<>>

\* the Modified branch of the per-file task of getPullRequestFileChanges,
\* once both blobs are fetched
DiffModifiedFile ==
  /\ diffPc = "input"
  /\ diffPc' = "done"
  /\ changes' = findMeaningfulChanges(SplitLines(originalContent), SplitLines(currentContent))
  /\ unifiedDiff' = calculateUnifiedDiff(originalContent, currentContent, FilePath)
  /\ diffContent' = addInlineCommentGuidance(unifiedDiff', VersionControlChangeType.Edit)
  /\ UNCHANGED <<originalContent, currentContent>>
  /\ UNCHANGED <<renderVars, commentVars, batchVars, resolveVars, contentVars, findVars>>

NextDiff == DiffModifiedFile

SpecDiff == InitDiff /\ [][NextDiff]_vars

-----------------------------------------------------------------------------
(* One call of findMeaningfulChanges, one iteration of its outer loop at a time *)

\* the pairs of line sequences of the call; split('\n') never gives an empty array
FindTexts == { <<"a">>, <<"b">>, <<"c">> }

FindInputs ==
  UNION {
    LineSeqs(FindTexts, MaxFindLines) \X LineSeqs(FindTexts, MaxFindLines),
    LineSeqs(WsTexts, MaxFindWsLines) \X LineSeqs(WsTexts, MaxFindWsLines),
    { <<A, InsertLines(A, p, X)>> :
        <<A, p, X>> \in { t \in LineSeqs(DeepTexts, MaxInsertBase)
                                  \X (0..MaxInsertBase)
                                  \X LineSeqs(InsertedTexts, MaxInsert) :
                          t[2] <= Len(t[1]) } } }

InitFind ==
  /\ IdleDiff
  /\ IdleRender
  /\ IdleComment
  /\ IdleBatch
  /\ IdleResolve
  /\ IdleContent
  /\ IdleFind

\* calculateUnifiedDiff calls findMeaningfulChanges on the lines of the two
\* contents: the cursors start at 0 and `changes` is empty
FindCalled ==
  /\ findPc = "idle"
  /\ findPc' = "loop"
  /\ \E in \in FindInputs :
       /\ findOriginalLines' = in[1]
       /\ findCurrentLines' = in[2]
  /\ originalIndex' = 0
  /\ currentIndex' = 0
  /\ segments' = <<>>
  /\ UNCHANGED <<iterations, lastIteration>>
  /\ UNCHANGED <<diffVars, renderVars, commentVars, batchVars, resolveVars, contentVars>>

\* the test of the outer while loop
LoopTest ==
  originalIndex < Len(findOriginalLines) \/ currentIndex < Len(findCurrentLines)

\* what an iteration records of itself: the cursors it began with, the cursors
\* after the identical lines were skipped, and the offsets of the match
Iteration(kind, s, origOffset, currOffset) ==
  [kind |-> kind, originalIndex |-> originalIndex, currentIndex |-> currentIndex,
   changeStartOriginal |-> s.oi, changeStartCurrent |-> s.ci,
   origOffset |-> origOffset, currOffset |-> currOffset]

\* the cursor after `index += offset`
Advance_Stay(index, offset) == index

Advance(index, offset) == index + offset

\* an iteration that skips identical lines up to the end of both sequences
\* and breaks
FindSkipsToEnd ==
  /\ findPc = "loop"
  /\ LoopTest
  /\ \E s \in {SkipIdentical(findOriginalLines, findCurrentLines, originalIndex, currentIndex)} :
        /\ s.oi >= Len(findOriginalLines)
        /\ s.ci >= Len(findCurrentLines)
        /\ originalIndex' = s.oi
        /\ currentIndex' = s.ci
        /\ lastIteration' = Iteration("identical", s, 0, 0)
  /\ findPc' = "returned"
  /\ iterations' = iterations + 1
  /\ UNCHANGED <<findOriginalLines, findCurrentLines, segments>>
  /\ UNCHANGED <<diffVars, renderVars, commentVars, batchVars, resolveVars, contentVars>>

\* an iteration whose look-ahead finds a match: it pushes the segment of the
\* match and advances the cursors
FindMatches ==
  /\ findPc = "loop"
  /\ LoopTest
  /\ \E s \in {SkipIdentical(findOriginalLines, findCurrentLines, originalIndex, currentIndex)} :
     \E m \in {FirstMatch(findOriginalLines, findCurrentLines, s.oi, s.ci, 1)} :
        /\ ~(s.oi >= Len(findOriginalLines) /\ s.ci >= Len(findCurrentLines))
        /\ m # <<>>
        /\ segments' = Append(segments, MatchedSegment(s.oi, s.ci, m[1]))
        /\ originalIndex' = Advance(s.oi, m[1].origOffset)
        /\ currentIndex' = Advance(s.ci, m[1].currOffset)
        /\ lastIteration' = Iteration("match", s, m[1].origOffset, m[1].currOffset)
  /\ iterations' = iterations + 1
  /\ UNCHANGED <<findPc, findOriginalLines, findCurrentLines>>
  /\ UNCHANGED <<diffVars, renderVars, commentVars, batchVars, resolveVars, contentVars>>

\* an iteration whose look-ahead finds no match: it pushes the segment of
\* the remaining lines and breaks
FindNoMatch ==
  /\ findPc = "loop"
  /\ LoopTest
  /\ \E s \in {SkipIdentical(findOriginalLines, findCurrentLines, originalIndex, currentIndex)} :
     \E m \in {FirstMatch(findOriginalLines, findCurrentLines, s.oi, s.ci, 1)} :
        /\ ~(s.oi >= Len(findOriginalLines) /\ s.ci >= Len(findCurrentLines))
        /\ m = <<>>
        /\ segments' = Append(segments,
                              RemainingSegment(findOriginalLines, findCurrentLines, s.oi, s.ci))
        /\ originalIndex' = s.oi
        /\ currentIndex' = s.ci
        /\ lastIteration' = Iteration("remaining", s, 0, 0)
  /\ findPc' = "returned"
  /\ iterations' = iterations + 1
  /\ UNCHANGED <<findOriginalLines, findCurrentLines>>
  /\ UNCHANGED <<diffVars, renderVars, commentVars, batchVars, resolveVars, contentVars>>

\* one iteration of the outer loop
FindIteration == FindSkipsToEnd \/ FindMatches \/ FindNoMatch

NextFind == FindCalled \/ FindSkipsToEnd \/ FindMatches \/ FindNoMatch

SpecFind == InitFind /\ [][NextFind]_vars

\* the loop is synchronous code: once the call is made its iterations run
SpecFindFair == SpecFind /\ WF_vars(FindIteration)

-----------------------------------------------------------------------------
(* The whole-file renderers applied to the text of one fetched blob *)

RenderTexts == { <<>>, <<"a">> }

\* files of n equal lines; one empty line is the empty file
RenderInputs ==
  {JoinLines([i \in 1..n |-> t]) : n \in 1..MaxRenderLines, t \in RenderTexts}

InitRender ==
  /\ IdleDiff
  /\ IdleComment
  /\ IdleBatch
  /\ IdleResolve
  /\ IdleContent
  /\ IdleFind
  /\ renderPc = "input"
  /\ renderKind = "none"
  /\ renderInput \in RenderInputs
  /\ renderOutput = <<>>

\* the Added branch of the per-file task, once the blob is fetched
RenderAddedFile ==
  /\ renderPc = "input"
  /\ renderPc' = "done"
  /\ renderKind' = "added"
  /\ renderOutput' = calculateAddedFileDiff(renderInput, FilePath)
  /\ UNCHANGED renderInput
  /\ UNCHANGED <<diffVars, commentVars, batchVars, resolveVars, contentVars, findVars>>

\* the Deleted branch of the per-file task, once the blob is fetched
RenderDeletedFile ==
  /\ renderPc = "input"
  /\ renderPc' = "done"
  /\ renderKind' = "deleted"
  /\ renderOutput' = calculateDeletedFileDiff(renderInput, FilePath)
  /\ UNCHANGED renderInput
  /\ UNCHANGED <<diffVars, commentVars, batchVars, resolveVars, contentVars, findVars>>

NextRender == RenderAddedFile \/ RenderDeletedFile

SpecRender == InitRender /\ [][NextRender]_vars

-----------------------------------------------------------------------------
(* One call of addPullRequestInlineComment *)

CommentPaths == { <<"/", "f">>, <<"f">>, <<"/", "g">> }
CommentLines == { -1, 0, 2 }
CommentOffsets == { 0, 1 }

\* change entries as the remote reports them; an entry may lack a path, and
\* its change type is any VersionControlChangeType (8 is Rename)
CommentEntryChoices ==
  [path : { <<"/", "f">>, <<"g">>, <<>> }, changeType : {1, 2, 8, 16}]

CommentEntryLists ==
  UNION {[1..k -> CommentEntryChoices] : k \in 0..MaxCommentEntries}

InitComment ==
  /\ IdleDiff
  /\ IdleRender
  /\ IdleBatch
  /\ IdleResolve
  /\ IdleContent
  /\ IdleFind
  /\ commentPc = "start"
  /\ commentParams \in [path : CommentPaths, line : CommentLines, offset : CommentOffsets]
  /\ \E es \in CommentEntryLists :
       commentEntries = [n \in 1..Len(es) |->
                           [path |-> es[n].path, changeType |-> es[n].changeType,
                            changeTrackingId |-> n]]
  /\ thread = <<>>
  /\ createThreadCalls = 0
  /\ commentError = <<>>
  /\ commentResponse = <<>>
  /\ commentCalls = <<>>

\* await this.getGitApi(); await this.resolveRepositoryId(params.repository)
CommentResolveRepository ==
  /\ commentPc = "start"
  /\ \/ /\ commentPc' = "resolved"
        /\ commentCalls' = commentCalls \o <<"getGitApi", "resolveRepositoryId">>
        /\ UNCHANGED <<commentError, commentResponse>>
     \/ \E e \in ResolveErrors \cup RemoteErrors("getGitApi") :
          /\ commentPc' = "thrown"
          /\ commentCalls' = commentCalls \o (IF e.source = "getGitApi"
                                               THEN <<"getGitApi">>
                                               ELSE <<"getGitApi", "resolveRepositoryId">>)
          /\ commentError' = CatchInlineComment(e)
          /\ commentResponse' = ToolErrorResponse(commentError')
  /\ UNCHANGED <<commentParams, commentEntries, thread, createThreadCalls>>
  /\ UNCHANGED <<diffVars, renderVars, batchVars, resolveVars, contentVars, findVars>>

\* await gitApi.getPullRequestIterationChanges(...); find the entry, build the
\* thread and call gitApi.createThread(...)
CommentGetChanges ==
  /\ commentPc = "resolved"
  /\ \/ \E e \in RemoteErrors("getPullRequestIterationChanges") :
          /\ commentPc' = "thrown"
          /\ commentError' = CatchInlineComment(e)
          /\ commentResponse' = ToolErrorResponse(commentError')
          /\ commentCalls' = Append(commentCalls, "getPullRequestIterationChanges")
          /\ UNCHANGED <<thread, createThreadCalls>>
     \/ LET changeEntry == FindChangeEntry(commentEntries, commentParams.path, 1) IN
        IF changeEntry = <<>>
        THEN /\ commentPc' = "thrown"
             /\ commentError' = CatchInlineComment(NotInPullRequestError)
             /\ commentResponse' = ToolErrorResponse(commentError')
             /\ commentCalls' = Append(commentCalls, "getPullRequestIterationChanges")
             /\ UNCHANGED <<thread, createThreadCalls>>
        ELSE /\ commentPc' = "creating"
             /\ thread' = Thread(changeEntry[1], commentParams)
             /\ createThreadCalls' = createThreadCalls + 1
             /\ commentCalls' = commentCalls
                                 \o <<"getPullRequestIterationChanges", "createThread">>
             /\ UNCHANGED <<commentError, commentResponse>>
  /\ UNCHANGED <<commentParams, commentEntries>>
  /\ UNCHANGED <<diffVars, renderVars, batchVars, resolveVars, contentVars, findVars>>

\* the createThread call settles
CommentCreateThreadSettles ==
  /\ commentPc = "creating"
  /\ UNCHANGED commentCalls
  /\ \/ /\ commentPc' = "returned"
        /\ commentResponse' = ToolSuccessResponse
        /\ UNCHANGED commentError
     \/ \E e \in RemoteErrors("createThread") :
          /\ commentPc' = "thrown"
          /\ commentError' = CatchInlineComment(e)
          /\ commentResponse' = ToolErrorResponse(commentError')
  /\ UNCHANGED <<commentParams, commentEntries, thread, createThreadCalls>>
  /\ UNCHANGED <<diffVars, renderVars, batchVars, resolveVars, contentVars, findVars>>

NextComment ==
  \/ CommentResolveRepository
  \/ CommentGetChanges
  \/ CommentCreateThreadSettles

SpecComment == InitComment /\ [][NextComment]_vars

-----------------------------------------------------------------------------
(* Concurrent calls of resolveRepositoryId on one service *)

\* a string of the 8-4-4-4-12 shape made of two characters
GuidOf(a, b) ==
  [i \in 1..8 |-> a] \o <<"-">> \o [i \in 1..4 |-> b] \o <<"-">> \o [i \in 1..4 |-> a]
  \o <<"-">> \o [i \in 1..4 |-> b] \o <<"-">> \o [i \in 1..12 |-> a]

\* the identifiers passed as repository: a name in a spelling of its own,
\* a name of no repository, GUIDs in lower and upper case, and a string
\* that misses the GUID shape by a letter
RepositoryIdentifiers ==
  { <<"r", "e", "p", "o">>, <<"N", "o">>,
    GuidOf("a", "1"), GuidOf("A", "1"), GuidOf("g", "1") }

\* the projectId passed; <<>> when it is not given
ProjectIds == { <<>>, <<"Q">> }

Projects == { ConfigProject, <<"Q">> }

\* the calls made: every identifier in the configured project, and the name
\* and the upper-case GUID in project Q as well
ResolveInputs ==
  { in \in [repository : RepositoryIdentifiers, projectId : ProjectIds] :
      in.projectId = <<>> \/ in.repository \in { <<"r", "e", "p", "o">>, GuidOf("A", "1") } }

\* the repository lists the remote can hold; in the second one the repository
\* of the configured project has been created anew and project Q is empty
RemoteRepositoryLists ==
  { [pr \in Projects |->
       IF pr = ConfigProject
       THEN << [name |-> <<"R", "e", "p", "o">>, id |-> GuidOf("c", "1")] >>
       ELSE << [name |-> <<>>, id |-> GuidOf("c", "3")],
               [name |-> <<"R", "E", "P", "O">>, id |-> GuidOf("c", "2")] >>],
    [pr \in Projects |->
       IF pr = ConfigProject
       THEN << [name |-> <<"L", "i", "b">>, id |-> GuidOf("c", "5")],
               [name |-> <<"R", "e", "p", "o">>, id |-> GuidOf("c", "4")] >>
       ELSE << >>] }

InitResolve ==
  /\ IdleDiff
  /\ IdleRender
  /\ IdleComment
  /\ IdleBatch
  /\ IdleContent
  /\ IdleFind
  /\ resolvePc = [c \in Callers |-> "idle"]
  /\ resolveArgs = [c \in Callers |-> <<>>]
  /\ resolveOutcome = [c \in Callers |-> <<>>]
  /\ resolveError = [c \in Callers |-> <<>>]
  /\ listCalls = [c \in Callers |-> 0]
  /\ repositoryCache = <<>>
  /\ remoteRepositories \in RemoteRepositoryLists
  /\ remoteChanges = 0
  /\ callsStarted = 0
  /\ firstSuccess = <<>>
  /\ resolvedBefore = [c \in Callers |-> FALSE]

\* a caller calls resolveRepositoryId: the code up to the first await
ResolveStart(c) ==
  /\ resolvePc[c] # "listing"
  /\ callsStarted < MaxResolveCalls
  /\ callsStarted' = callsStarted + 1
  /\ \E in \in ResolveInputs :
       LET repository == in.repository
           projectId == in.projectId
           cacheKey == CacheKey(repository, projectId)
       IN
       /\ resolveArgs' = [resolveArgs EXCEPT ![c] = in]
       /\ resolveError' = [resolveError EXCEPT ![c] = <<>>]
       /\ resolvedBefore' = [resolvedBefore EXCEPT ![c] = cacheKey \in DOMAIN firstSuccess]
       /\ IF isRepositoryId(repository)
          THEN /\ resolvePc' = [resolvePc EXCEPT ![c] = "returned"]
               /\ resolveOutcome' = [resolveOutcome EXCEPT ![c] = repository]
               /\ listCalls' = [listCalls EXCEPT ![c] = 0]
          ELSE IF CacheHas(repositoryCache, cacheKey)
          THEN /\ resolvePc' = [resolvePc EXCEPT ![c] = "returned"]
               /\ resolveOutcome' = [resolveOutcome EXCEPT
                                       ![c] = CacheGet(repositoryCache, cacheKey)]
               /\ listCalls' = [listCalls EXCEPT ![c] = 0]
          ELSE /\ resolvePc' = [resolvePc EXCEPT ![c] = "listing"]
               /\ resolveOutcome' = [resolveOutcome EXCEPT ![c] = <<>>]
               /\ listCalls' = [listCalls EXCEPT ![c] = 1]
  /\ UNCHANGED <<repositoryCache, remoteRepositories, remoteChanges, firstSuccess>>
  /\ UNCHANGED <<diffVars, renderVars, commentVars, batchVars, contentVars, findVars>>

\* another call with the same cache key is awaiting its listing
OtherCallListing(c, cacheKey) ==
  \E other \in Callers \ {c} :
    /\ resolvePc[other] = "listing"
    /\ CacheKey(resolveArgs[other].repository, resolveArgs[other].projectId) = cacheKey

\* listRepositories of a caller is answered with the list of the project
\* scope: the code after the await
ListAnswers(c) ==
  /\ resolvePc[c] = "listing"
  /\ LET repository == resolveArgs[c].repository
         projectId == resolveArgs[c].projectId
         cacheKey == CacheKey(repository, projectId)
         repositories == remoteRepositories[ProjectScope(projectId)]
         matchedRepo == FindRepository(repositories, repository, 1)
     IN IF matchedRepo = <<>>
        THEN /\ resolvePc' = [resolvePc EXCEPT ![c] = "thrown"]
             /\ resolveError' =
                  [resolveError EXCEPT
                     ![c] = CatchResolve(
                              RepositoryNotFoundError(repository, projectId, repositories),
                              repository)]
             /\ UNCHANGED <<resolveOutcome, repositoryCache, firstSuccess>>
        ELSE /\ repositoryCache' = CacheSet(repositoryCache, cacheKey, matchedRepo[1].id)
             /\ resolvePc' = [resolvePc EXCEPT ![c] = "returned"]
             /\ resolveOutcome' = [resolveOutcome EXCEPT ![c] = matchedRepo[1].id]
             /\ UNCHANGED resolveError
             /\ firstSuccess' =
                  IF cacheKey \in DOMAIN firstSuccess THEN firstSuccess
                  ELSE [k \in DOMAIN firstSuccess \cup {cacheKey} |->
                          IF k = cacheKey
                          THEN [id |-> matchedRepo[1].id,
                                overlapped |-> OtherCallListing(c, cacheKey)]
                          ELSE firstSuccess[k]]
  /\ UNCHANGED <<resolveArgs, listCalls, remoteRepositories, remoteChanges, callsStarted,
                 resolvedBefore>>
  /\ UNCHANGED <<diffVars, renderVars, commentVars, batchVars, contentVars, findVars>>

\* listRepositories of a caller rejects: the catch block
ListRejects(c) ==
  /\ resolvePc[c] = "listing"
  /\ \E error \in {RemoteNotFoundError, RemoteUnavailableError} :
       /\ resolvePc' = [resolvePc EXCEPT ![c] = "thrown"]
       /\ resolveError' = [resolveError EXCEPT
                             ![c] = CatchResolve(error, resolveArgs[c].repository)]
  /\ UNCHANGED <<resolveOutcome, repositoryCache, firstSuccess>>
  /\ UNCHANGED <<resolveArgs, listCalls, remoteRepositories, remoteChanges, callsStarted,
                 resolvedBefore>>
  /\ UNCHANGED <<diffVars, renderVars, commentVars, batchVars, contentVars, findVars>>

\* the remote: the repository list changes
RemoteChanges ==
  /\ remoteChanges < MaxRemoteChanges
  /\ remoteChanges' = remoteChanges + 1
  /\ remoteRepositories' \in RemoteRepositoryLists \ {remoteRepositories}
  /\ UNCHANGED <<resolvePc, resolveArgs, resolveOutcome, resolveError, listCalls,
                 repositoryCache, callsStarted, firstSuccess, resolvedBefore>>
  /\ UNCHANGED <<diffVars, renderVars, commentVars, batchVars, contentVars, findVars>>

NextResolve ==
  \/ \E c \in Callers : ResolveStart(c)
  \/ \E c \in Callers : ListAnswers(c)
  \/ \E c \in Callers : ListRejects(c)
  \/ RemoteChanges

SpecResolve == InitResolve /\ [][NextResolve]_vars

-----------------------------------------------------------------------------
(* One call of getFileContentByObjectId *)

\* the texts of the blobs the remote holds; "e'" is a character of two bytes
ContentTexts == { <<>>, <<"a", "e'", "b">>, <<"e'", NL, "e'">> }

InitContent ==
  /\ IdleDiff
  /\ IdleRender
  /\ IdleComment
  /\ IdleBatch
  /\ IdleResolve
  /\ IdleFind
  /\ contentPc = "calling"
  /\ remoteBlob \in ContentTexts
  /\ undelivered = <<>>
  /\ chunks = <<>>
  /\ stream = "none"
  /\ timeout = "none"
  /\ clock = 0
  /\ contentOutcome = <<>>
  /\ lateEvents = {}

\* await this.getGitApi() or await gitApi.getBlobContent(...) rejects: the
\* catch block returns the placeholder
BlobContentRejects ==
  /\ contentPc = "calling"
  /\ contentPc' = "settled"
  /\ contentOutcome' = getFileContentByObjectId("call_error", <<>>)
  /\ UNCHANGED <<remoteBlob, undelivered, chunks, stream, timeout, clock>>
  /\ UNCHANGED lateEvents
  /\ UNCHANGED <<diffVars, renderVars, commentVars, batchVars, resolveVars, findVars>>

\* getBlobContent is fulfilled: the tests on the shape of the content; for a
\* stream the promise is made, the timer is set and the handlers are attached
BlobContentArrives ==
  /\ contentPc = "calling"
  /\ \E shape \in ContentShapes :
       IF shape = "stream"
       THEN /\ contentPc' = "streaming"
            /\ stream' = "open"
            /\ undelivered' = Utf8Encode(remoteBlob)
            /\ timeout' = "armed"
            /\ UNCHANGED contentOutcome
       ELSE /\ contentPc' = "settled"
            /\ contentOutcome' =
                 IF shape = "buffer"
                 THEN getFileContentByObjectId("content", Utf8Decode(Utf8Encode(remoteBlob)))
                 ELSE IF shape = "string"
                 THEN getFileContentByObjectId("content", remoteBlob)
                 ELSE getFileContentByObjectId("unknown_shape", <<>>)
            /\ UNCHANGED <<stream, undelivered, timeout>>
  /\ UNCHANGED <<remoteBlob, chunks, clock>>
  /\ UNCHANGED lateEvents
  /\ UNCHANGED <<diffVars, renderVars, commentVars, batchVars, resolveVars, findVars>>

\* stream.on('data'): the next bytes of the blob arrive as one chunk
StreamData ==
  /\ contentPc = "streaming"
  /\ stream = "open"
  /\ \E n \in 1..Len(undelivered) :
       /\ chunks' = Append(chunks, SubSeq(undelivered, 1, n))
       /\ undelivered' = SubSeq(undelivered, n + 1, Len(undelivered))
  /\ UNCHANGED <<contentPc, remoteBlob, stream, timeout, clock, contentOutcome>>
  /\ UNCHANGED lateEvents
  /\ UNCHANGED <<diffVars, renderVars, commentVars, batchVars, resolveVars, findVars>>

\* stream.on('end'): every byte was delivered
StreamEnds ==
  /\ contentPc = "streaming"
  /\ stream = "open"
  /\ undelivered = <<>>
  /\ stream' = "ended"
  /\ timeout' = "cleared"
  /\ contentPc' = "settled"
  /\ contentOutcome' = [settled |-> "fulfilled", value |-> StreamText(chunks)]
  /\ UNCHANGED <<remoteBlob, undelivered, chunks, clock>>
  /\ UNCHANGED lateEvents
  /\ UNCHANGED <<diffVars, renderVars, commentVars, batchVars, resolveVars, findVars>>

\* stream.on('error')
StreamErrors ==
  /\ contentPc = "streaming"
  /\ stream = "open"
  /\ stream' = "errored"
  /\ timeout' = "cleared"
  /\ contentPc' = "settled"
  /\ contentOutcome' = StreamFailure("stream_error", StreamError)
  /\ UNCHANGED <<remoteBlob, undelivered, chunks, clock>>
  /\ UNCHANGED lateEvents
  /\ UNCHANGED <<diffVars, renderVars, commentVars, batchVars, resolveVars, findVars>>

\* the delay of the timer passes
TimePasses ==
  /\ timeout = "armed"
  /\ clock < streamTimeoutMs
  /\ clock' = streamTimeoutMs
  /\ UNCHANGED <<contentPc, remoteBlob, undelivered, chunks, stream, timeout, contentOutcome>>
  /\ UNCHANGED lateEvents
  /\ UNCHANGED <<diffVars, renderVars, commentVars, batchVars, resolveVars, findVars>>

\* the callback of setTimeout runs
TimeoutFires ==
  /\ timeout = "armed"
  /\ clock >= streamTimeoutMs
  /\ stream' = "destroyed"
  /\ timeout' = "fired"
  /\ contentPc' = "settled"
  /\ contentOutcome' = StreamFailure("stream_timeout", StreamTimeoutError)
  /\ UNCHANGED <<remoteBlob, undelivered, chunks, clock>>
  /\ UNCHANGED lateEvents
  /\ UNCHANGED <<diffVars, renderVars, commentVars, batchVars, resolveVars, findVars>>

\* resolve and reject of a promise: a promise that is settled keeps its outcome
SettleOnce_Overwrite(outcome, new) == new

SettleOnce(outcome, new) == IF outcome = <<>> THEN new ELSE outcome

\* stream.on('data') for a chunk that arrives after the timer fired
LateStreamData ==
  /\ timeout = "fired"
  /\ lateEvents \cap {"end", "error"} = {}
  /\ \E n \in 1..Len(undelivered) :
       /\ chunks' = Append(chunks, SubSeq(undelivered, 1, n))
       /\ undelivered' = SubSeq(undelivered, n + 1, Len(undelivered))
  /\ lateEvents' = lateEvents \cup {"data"}
  /\ UNCHANGED <<contentPc, remoteBlob, stream, timeout, clock, contentOutcome>>
  /\ UNCHANGED <<diffVars, renderVars, commentVars, batchVars, resolveVars, findVars>>

\* stream.on('end') for an end that arrives after the timer fired:
\* clearTimeout of a timer that has run does nothing, and resolve is called
LateStreamEnds ==
  /\ timeout = "fired"
  /\ lateEvents \cap {"end", "error"} = {}
  /\ undelivered = <<>>
  /\ contentOutcome' = SettleOnce(contentOutcome,
                                  [settled |-> "fulfilled", value |-> StreamText(chunks)])
  /\ lateEvents' = lateEvents \cup {"end"}
  /\ UNCHANGED <<contentPc, remoteBlob, undelivered, chunks, stream, timeout, clock>>
  /\ UNCHANGED <<diffVars, renderVars, commentVars, batchVars, resolveVars, findVars>>

\* stream.on('error') for an error that arrives after the timer fired
LateStreamErrors ==
  /\ timeout = "fired"
  /\ lateEvents \cap {"end", "error"} = {}
  /\ contentOutcome' = SettleOnce(contentOutcome, StreamFailure("stream_error", StreamError))
  /\ lateEvents' = lateEvents \cup {"error"}
  /\ UNCHANGED <<contentPc, remoteBlob, undelivered, chunks, stream, timeout, clock>>
  /\ UNCHANGED <<diffVars, renderVars, commentVars, batchVars, resolveVars, findVars>>

NextContent ==
  \/ BlobContentRejects
  \/ BlobContentArrives
  \/ StreamData
  \/ StreamEnds
  \/ StreamErrors
  \/ TimePasses
  \/ TimeoutFires
  \/ LateStreamData
  \/ LateStreamEnds
  \/ LateStreamErrors

SpecContent == InitContent /\ [][NextContent]_vars

\* a timer that is set and not cleared runs its callback once its delay has
\* passed; nothing makes the remote call or the stream deliver anything
SpecContentFair == SpecContent /\ WF_vars(TimePasses) /\ WF_vars(TimeoutFires)

-----------------------------------------------------------------------------
(* One call of getPullRequestFileChanges *)

\* the text the remote holds for a blob
BlobText(objectId) ==
  IF objectId = "o1" THEN JoinLines(<< <<"a">>, <<"b">> >>)
  ELSE JoinLines(<< <<"a">>, <<"x">> >>)

\* change type and blob ids of an entry: Edit, Add, the code 3, Delete
BatchEntryChoices ==
  { [changeType |-> 2, originalObjectId |-> "o1", objectId |-> "o2"],
    [changeType |-> 1, originalObjectId |-> "", objectId |-> "o2"],
    [changeType |-> 3, originalObjectId |-> "o1", objectId |-> ""],
    [changeType |-> 16, originalObjectId |-> "o1", objectId |-> ""] }

BatchEntryLists == UNION {[1..k -> BatchEntryChoices] : k \in 1..MaxBatchEntries}

BatchPaths == { <<>>, <<"f", NumTok(1)>> }

InitBatch ==
  /\ IdleDiff
  /\ IdleRender
  /\ IdleComment
  /\ IdleResolve
  /\ IdleContent
  /\ IdleFind
  /\ batchPc = "start"
  /\ batchPath \in BatchPaths
  /\ \E es \in BatchEntryLists :
       batchEntries = [n \in 1..Len(es) |->
                         [path |-> <<"/", "f", NumTok(n)>>,
                          changeType |-> es[n].changeType,
                          originalObjectId |-> es[n].originalObjectId,
                          objectId |-> es[n].objectId]]
  /\ tasks = <<>>
  /\ batchResult = <<>>
  /\ batchResponse = <<>>
  /\ fetchFaults = TRUE

\* getGitApi, resolveRepositoryId and getPullRequestIterationChanges; then the
\* selection and the synchronous start of every per-file task
BatchStart ==
  /\ batchPc = "start"
  /\ \/ /\ batchPc' = "thrown"
        /\ UNCHANGED tasks
     \/ /\ batchPc' = "running"
        /\ tasks' = LET selected == IF batchPath # <<>>
                                    THEN FilterByPath(batchEntries, batchPath)
                                    ELSE SmartSelection(batchEntries)
                    IN [n \in 1..Len(selected) |-> StartTask(selected[n])]
  /\ UNCHANGED <<batchPath, batchEntries, batchResult, batchResponse, fetchFaults>>
  /\ UNCHANGED <<diffVars, renderVars, commentVars, resolveVars, contentVars, findVars>>

\* one blob fetch of one task settles; a fetch that settles after its task
\* has finished changes nothing
FetchSettles ==
  /\ batchPc = "running"
  /\ \E n \in 1..Len(tasks) : \E which \in {"original", "current"} :
     \E how \in (IF fetchFaults THEN FetchOutcomes ELSE {"content"}) :
       /\ tasks[n].pc = "fetching"
       /\ tasks[n].fetch[which] = "pending"
       /\ tasks' = [tasks EXCEPT ![n] =
                      TaskAfterFetch(tasks[n], which, how,
                                     BlobText(IF which = "original"
                                              THEN tasks[n].change.originalObjectId
                                              ELSE tasks[n].change.objectId))]
  /\ UNCHANGED <<batchPc, batchPath, batchEntries, batchResult, batchResponse, fetchFaults>>
  /\ UNCHANGED <<diffVars, renderVars, commentVars, resolveVars, contentVars, findVars>>

\* the outer Promise.all settles: it rejects with the first rejected task,
\* and is fulfilled once every task is
BatchSettles ==
  /\ batchPc = "running"
  /\ IF \E n \in 1..Len(tasks) : tasks[n].pc = "rejected"
     THEN /\ batchPc' = "thrown"
          /\ UNCHANGED <<batchResult, batchResponse>>
     ELSE /\ \A n \in 1..Len(tasks) : tasks[n].pc = "fulfilled"
          /\ batchPc' = "returned"
          /\ batchResult' = BatchReturnValue(batchPath, batchEntries, tasks)
          /\ batchResponse' = formatPullRequestFileChanges(batchResult')
  /\ UNCHANGED <<batchPath, batchEntries, tasks, fetchFaults>>
  /\ UNCHANGED <<diffVars, renderVars, commentVars, resolveVars, contentVars, findVars>>

NextBatch == BatchStart \/ FetchSettles \/ BatchSettles

SpecBatch == InitBatch /\ [][NextBatch]_vars

\* a request without path for a pull request of many files, against a remote
\* whose blob fetches succeed: the entries are of the kinds Edit, Add and
\* Delete
SelectEntryChoices ==
  { e \in BatchEntryChoices :
      e.changeType \in {VersionControlChangeType.Edit, VersionControlChangeType.Add,
                        VersionControlChangeType.Delete} }

SelectEntryLists == UNION {[1..k -> SelectEntryChoices] : k \in 0..MaxSelectEntries}

InitSelect ==
  /\ IdleDiff
  /\ IdleRender
  /\ IdleComment
  /\ IdleResolve
  /\ IdleContent
  /\ IdleFind
  /\ batchPc = "start"
  /\ batchPath = <<>>
  /\ \E es \in SelectEntryLists :
       batchEntries = [n \in 1..Len(es) |->
                         [path |-> <<"/", "f", NumTok(n)>>,
                          changeType |-> es[n].changeType,
                          originalObjectId |-> es[n].originalObjectId,
                          objectId |-> es[n].objectId]]
  /\ tasks = <<>>
  /\ batchResult = <<>>
  /\ batchResponse = <<>>
  /\ fetchFaults = FALSE

SpecSelect == InitSelect /\ [][NextBatch]_vars

-----------------------------------------------------------------------------
(* Properties of the diff engine *)

OriginalLines == SplitLines(originalContent)
CurrentLines == SplitLines(currentContent)

\* the maximal runs of non-whitespace characters of a line, in order: two
\* lines are equal after trimming and collapsing whitespace runs exactly when
\* they have the same words
RECURSIVE WordsFrom(_, _, _)
WordsFrom(line, i, word) ==
  IF i > Len(line) THEN (IF word = <<>> THEN <<>> ELSE <<word>>)
  ELSE IF line[i] \in Whitespace
       THEN (IF word = <<>> THEN <<>> ELSE <<word>>) \o WordsFrom(line, i + 1, <<>>)
       ELSE WordsFrom(line, i + 1, Append(word, line[i]))

Words(line) == WordsFrom(line, 1, <<>>)

ScenarioOriginal == << <<"a">>, <<"b">>, <<"c">> >>
ScenarioCurrent == << <<"a">>, <<"x">>, <<"c">> >>

ScenarioDiffed ==
  /\ diffPc = "done"
  /\ originalContent = JoinLines(ScenarioOriginal)
  /\ currentContent = JoinLines(ScenarioCurrent)

\* the marker at the end of an annotated line: <<side, number>>, or <<>>
MarkerOf(line) ==
  IF Len(line) >= 5 /\ line[Len(line) - 2] = "[<- " /\ line[Len(line) - 1] \in NumToks
  THEN << (IF line[Len(line)] = ", right]" THEN "right" ELSE "left"),
          ParseInt(line[Len(line) - 1]) >>
  ELSE <<>>

\* the line of the annotated diff that renders the n-th line of the unified
\* diff: three guidance lines come first, and every hunk header is followed
\* by one guidance line
AnnotatedLine(entries, n) ==
  SplitLines(diffContent)[3 + n + Cardinality({m \in 1..(n - 1) : entries[m].kind = "hunk"})]

\* the 1-based position in the current version of the unchanged original line
\* with 0-based index i, or 0 when that line lies inside a changed range
PairedCurrentLine(segs, i) ==
  IF \E n \in 1..Len(segs) :
       /\ segs[n].type \in {"removed", "modified"}
       /\ segs[n].originalStart - 1 <= i /\ i <= segs[n].originalEnd - 1
  THEN 0
  ELSE LET RECURSIVE Shift(_)
           Shift(n) ==
             IF n > Len(segs) THEN 0
             ELSE LET sg == segs[n]
                      curLen == sg.currentEnd - sg.currentStart + 1
                      origLen == sg.originalEnd - sg.originalStart + 1
                  IN (IF sg.type = "added" /\ sg.originalStart - 1 <= i THEN curLen
                      ELSE IF sg.type = "removed" /\ sg.originalEnd - 1 < i THEN 0 - origLen
                      ELSE IF sg.type = "modified" /\ sg.originalEnd - 1 < i THEN curLen - origLen
                      ELSE 0) + Shift(n + 1)
       IN i + 1 + Shift(1)

\* C2 (as claimed): in the annotated diff of a Modified file every added line
\* and every context line carries a right marker equal to the line's 1-based
\* position in the current version, and every removed line a left marker
\* equal to its 1-based position in the original version
C2_MarkersAreTruePositions ==
  diffPc = "done" =>
    LET entries == UnifiedDiffEntries(originalContent, currentContent, FilePath)
    IN \A n \in 1..Len(entries) :
         LET marker == MarkerOf(AnnotatedLine(entries, n)) IN
         /\ entries[n].kind = "added" => marker = <<"right", entries[n].curr + 1>>
         /\ entries[n].kind = "removed" => marker = <<"left", entries[n].orig + 1>>
         /\ entries[n].kind = "context" =>
              marker = <<"right", PairedCurrentLine(changes, entries[n].orig)>>

\* C3: diffing ["a","b","c"] against ["a","x","c"] yields exactly one segment,
\* of kind Modified, spanning original line 2 to 2 and current line 2 to 2
C3_ScenarioOneModifiedSegment ==
  ScenarioDiffed => changes = << Segment("modified", 2, 2, 2, 2) >>

C3_Witness == ScenarioDiffed /\ Len(changes) = 1

\* C4 (as claimed): for ["a","b","c"] against ["a","x","c"] the rendered diff
\* has a single hunk with header `@@ -1,3 +1,3 @@`, followed in this order by
\* context "a", removed "b", added "x", context "c"
C4_ScenarioHunk ==
  ScenarioDiffed =>
    LET ls == SplitLines(unifiedDiff)
        hunks == {n \in 1..Len(ls) : StartsWith(ls[n], <<"@", "@">>)}
    IN /\ Cardinality(hunks) = 1
       /\ \A h \in hunks :
            /\ ls[h] = HunkHeader(1, 3, 1, 3)
            /\ SubSeq(ls, h + 1, Len(ls))
                 = << <<SP, "a">>, <<"-", "b">>, <<"+", "x">>, <<SP, "c">> >>

\* the two sequences have the same length and their lines are pairwise equal
\* after normalization
PairwiseNormalizedEqual(O, C) ==
  /\ Len(O) = Len(C)
  /\ \A i \in 1..Len(O) : Words(O[i]) = Words(C[i])

\* C5: for two line sequences that are identical, or of equal length with
\* lines pairwise equal after normalization, findMeaningfulChanges returns
\* no segment and calculateUnifiedDiff emits exactly one hunk, with header
\* `@@ -1,N +1,M @@` for the two line counts, annotated as no meaningful
\* differences
C5_NoMeaningfulDifferences ==
  (diffPc = "done" /\ PairwiseNormalizedEqual(OriginalLines, CurrentLines)) =>
    /\ changes = <<>>
    /\ SplitLines(unifiedDiff)
         = << <<"-", "-", "-", SP, "a">> \o FilePath,
              <<"+", "+", "+", SP, "b">> \o FilePath,
              HunkHeader(1, Len(OriginalLines), 1, Len(CurrentLines)),
              <<SP, "(No meaningful differences found - likely formatting changes)">> >>

C5_Witness ==
  /\ diffPc = "done"
  /\ originalContent # currentContent
  /\ Len(OriginalLines) = 2
  /\ PairwiseNormalizedEqual(OriginalLines, CurrentLines)
  /\ changes = <<>>

\* C is O with k lines inserted after its first p lines
IsInsertion(O, C, p, k) ==
  /\ p <= Len(O)
  /\ Len(C) = Len(O) + k
  /\ SubSeq(C, 1, p) = SubSeq(O, 1, p)
  /\ SubSeq(C, p + k + 1, Len(C)) = SubSeq(O, p + 1, Len(O))

OneAddedSegment(p, k) ==
  /\ Len(changes) = 1
  /\ changes[1].type = "added"
  /\ changes[1].currentStart = p + 1
  /\ changes[1].currentEnd = p + k

\* no inserted line is equal after normalization to a line of O
InsertedLinesAreNew(O, C, p, k) ==
  \A i \in (p + 1)..(p + k) : \A j \in 1..Len(O) : Words(C[i]) # Words(O[j])

\* C6 (as claimed): for every A and every B formed by inserting k consecutive
\* lines into A after its first p lines, 1 <= k <= 5, findMeaningfulChanges
\* returns exactly one segment, of kind Added, with current range p+1..p+k
C6_InsertionIsOneAddedSegment ==
  diffPc = "done" =>
    \A p \in 0..Len(OriginalLines) : \A k \in 1..5 :
      IsInsertion(OriginalLines, CurrentLines, p, k) => OneAddedSegment(p, k)

\* C6 (amended): the same, provided no inserted line is equal after
\* normalization to a line of A
C6_NewLinesInsertionIsOneAddedSegment ==
  diffPc = "done" =>
    \A p \in 0..Len(OriginalLines) : \A k \in 1..5 :
      (/\ IsInsertion(OriginalLines, CurrentLines, p, k)
       /\ InsertedLinesAreNew(OriginalLines, CurrentLines, p, k))
        => OneAddedSegment(p, k)

C6_Witness ==
  /\ diffPc = "done"
  /\ Len(OriginalLines) = 2
  /\ IsInsertion(OriginalLines, CurrentLines, 1, 5)
  /\ InsertedLinesAreNew(OriginalLines, CurrentLines, 1, 5)
  /\ OneAddedSegment(1, 5)

-----------------------------------------------------------------------------
(* Properties of the whole-file renderers *)

\* the index of the first token after the sign that is not a space, or 0
FirstNonSpace(line) ==
  IF \E q \in 2..Len(line) : line[q] # SP
  THEN CHOOSE q \in 2..Len(line) : line[q] # SP /\ \A j \in 2..(q - 1) : line[j] = SP
  ELSE 0

\* a numbered line entry: sign, padded number, colon, text, marker
IsNumberedEntry(line) ==
  /\ Len(line) >= 9
  /\ line[1] \in {"+", "-"}
  /\ LET q == FirstNonSpace(line) IN
       /\ q # 0
       /\ q + 2 <= Len(line) - 5
       /\ line[q] \in NumToks
       /\ line[q + 1] = ":"
       /\ line[q + 2] = SP
  /\ MarkerOf(line) # <<>>

EntryLabel(line) == ParseInt(line[FirstNonSpace(line)])
EntryText(line) == SubSeq(line, FirstNonSpace(line) + 3, Len(line) - 5)

\* the summary line of the hidden lines
IsSummary(line) == Len(line) = 12 /\ line[1] \in {"+", "-"} /\ line[2] = "..."

NumberedEntriesOf(out) == SelectSeq(out, IsNumberedEntry)
SummariesOf(out) == SelectSeq(out, IsSummary)

\* C7: on content of L lines the renderers emit exactly L numbered entries
\* labelled 1..L when L is at most the threshold (250 added, 100 deleted);
\* above it, entries for lines 1..50 and L-9..L, each labelled with its true
\* line number, and one summary line reporting L-60 hidden lines with range
\* 51..L-10, so that shown lines plus hidden count sum to L
C7_NumberedEntries ==
  renderPc = "done" =>
    LET lines == SplitLines(renderInput)
        out == SplitLines(renderOutput)
        entries == NumberedEntriesOf(out)
        summaries == SummariesOf(out)
        L == Len(lines)
        threshold == IF renderKind = "added" THEN 250 ELSE 100
        side == IF renderKind = "added" THEN "right" ELSE "left"
        sign == IF renderKind = "added" THEN "+" ELSE "-"
        labels == [n \in 1..Len(entries) |-> EntryLabel(entries[n])]
    IN /\ \A n \in 1..Len(entries) :
            /\ entries[n][1] = sign
            /\ labels[n] \in 1..L
            /\ EntryText(entries[n]) = lines[labels[n]]
            /\ MarkerOf(entries[n]) = <<side, labels[n]>>
       /\ IF L <= threshold
          THEN /\ labels = [n \in 1..L |-> n]
               /\ summaries = <<>>
          ELSE /\ labels = [n \in 1..60 |-> IF n <= 50 THEN n ELSE L - 60 + n]
               /\ Len(summaries) = 1
               /\ summaries[1][1] = sign
               /\ ParseInt(summaries[1][5]) = L - 60
               /\ ParseInt(summaries[1][9]) = 51
               /\ ParseInt(summaries[1][11]) = L - 10
               /\ Len(entries) + ParseInt(summaries[1][5]) = L

C7_Witness ==
  /\ renderPc = "done"
  /\ renderKind = "deleted"
  /\ LET out == SplitLines(renderOutput) IN
       /\ Len(SplitLines(renderInput)) = 101
       /\ Len(NumberedEntriesOf(out)) = 60
       /\ Len(SummariesOf(out)) = 1

\* C8 (as claimed): an Added or Deleted file whose fetched content is empty is
\* rendered as the fixed empty-file marker, with no numbered line entry
C8_EmptyFileMarker ==
  (renderPc = "done" /\ renderInput = <<>>) =>
    /\ renderOutput = IF renderKind = "added" THEN EmptyAddedFileDiff(FilePath)
                      ELSE EmptyDeletedFileDiff(FilePath)
    /\ NumberedEntriesOf(SplitLines(renderOutput)) = <<>>

-----------------------------------------------------------------------------
(* Properties of addPullRequestInlineComment *)

\* a path without its one leading slash, if it has one
WithoutLeadingSlash(path) ==
  IF Len(path) > 0 /\ path[1] = "/" THEN SubSeq(path, 2, Len(path)) ELSE path

\* the entry has a path and it is the requested one
MatchesRequest(entry) ==
  /\ entry.path # <<>>
  /\ WithoutLeadingSlash(entry.path) = WithoutLeadingSlash(commentParams.path)

\* the indices of the entries matching the request
MatchingEntries == {n \in 1..Len(commentEntries) : MatchesRequest(commentEntries[n])}

\* the first entry that matches the request
MatchedEntry ==
  commentEntries[CHOOSE n \in MatchingEntries : \A m \in MatchingEntries : n <= m]

CallerStart == [null |-> FALSE, line |-> commentParams.line, offset |-> commentParams.offset]
CallerEnd == [null |-> FALSE, line |-> commentParams.line, offset |-> commentParams.offset + 1]
IsNull(position) == position.null

-----------------------------------------------------------------------------
(* Properties of getPullRequestFileChanges *)

\* no blob fetch of the task went wrong
FetchedCleanly(task) ==
  \A which \in {"original", "current"} : task.fetch[which] \in {"none", "content"}

\* a blob fetch of the task failed
FetchFailed(task) ==
  \E which \in {"original", "current"} :
     task.fetch[which] \in {"call_error", "stream_error", "stream_timeout"}

\* the diffContent of a change entry when every fetch delivers the blob text
CleanDiffContent(change) ==
  IF change.changeType = 2 /\ change.originalObjectId # "" /\ change.objectId # ""
  THEN addInlineCommentGuidance(
         calculateUnifiedDiff(BlobText(change.originalObjectId), BlobText(change.objectId),
                              change.path), 2)
  ELSE IF change.changeType = 1 /\ change.objectId # ""
  THEN calculateAddedFileDiff(BlobText(change.objectId), change.path)
  ELSE IF change.changeType = 3 /\ change.originalObjectId # ""
  THEN calculateDeletedFileDiff(BlobText(change.originalObjectId), change.path)
  ELSE <<>>

\* C9: a failure while fetching or diffing the content of one changed file
\* never makes the whole request fail: the request still returns an entry for
\* every selected file, and the diffContent of every file whose own fetches
\* went well is what it is without any failure, in every completion order
C9_FileFailuresAreIsolated ==
  /\ batchPc = "thrown" => tasks = <<>>
  /\ batchPc = "returned" =>
       /\ Len(batchResult.changeEntries) = Len(tasks)
       /\ \A n \in 1..Len(tasks) :
            /\ batchResult.changeEntries[n].change = tasks[n].change
            /\ FetchedCleanly(tasks[n]) =>
                 batchResult.changeEntries[n].diffContent = CleanDiffContent(tasks[n].change)

C9_Witness ==
  /\ batchPc = "returned"
  /\ Len(tasks) = 2
  /\ tasks[1].fetch.current = "stream_timeout"
  /\ tasks[1].fetch.original = "content"
  /\ tasks[2].branch = "modified"
  /\ FetchedCleanly(tasks[2])
  /\ batchResult.changeEntries[1].diffContent = DiffNotAvailable
  /\ batchResult.changeEntries[2].diffContent = CleanDiffContent(tasks[2].change)

\* C10 (as claimed): whenever fetching a blob needed for a file fails (the
\* remote blob call errors, the stream errors, or the stream times out), that
\* file's diffContent is exactly a placeholder string, never a diff rendered
\* from placeholder text
C10_FailedFetchGivesPlaceholder ==
  batchPc = "returned" =>
    \A n \in 1..Len(tasks) :
      FetchFailed(tasks[n]) =>
        batchResult.changeEntries[n].diffContent \in {DiffNotAvailable, ContentNotAvailable}

-----------------------------------------------------------------------------
(* C11, C12: the errors and the remote calls of addPullRequestInlineComment *)

\* createThread has rejected the anchor: the rejection carries status 400 or
\* a message about the line, the position or the range
AnchorRejected ==
  /\ commentPc = "thrown"
  /\ commentError.source = "createThread"
  /\ \/ commentError.status = 400
     \/ commentError.words \cap {"line", "position", "range", "invalid"} # {}

\* C11: whenever createThread rejects the anchor, the error that reaches the
\* caller is the translated diagnostic, which names getPullRequestFileChanges
\* and holds the original error text, and the tool answers with the response
\* for an invalid line position; this also for a rejection with status 400
\* and no message.
C11_AnchorRejectionIsTranslated ==
  AnchorRejected =>
    /\ commentError.translated
    /\ "getPullRequestFileChanges" \in MessagePhrases(commentError)
    /\ commentError.words \subseteq MessagePhrases(commentError)
    /\ commentResponse.kind = "invalidLinePosition"

\* the number of times a call occurs in the log of calls
Occurrences(calls, name) == Cardinality({n \in 1..Len(calls) : calls[n] = name})

\* C12: in every step of a run createThread is called at most once, only once
\* the repository is resolved and an entry with the requested path is found,
\* and with the changeTrackingId of the first such entry; no call of the run
\* is issued twice, and a run in which resolution failed or no entry matched
\* has called createThread never.
C12_CreateThreadOnceForMatchedEntry ==
  [][ /\ (createThreadCalls' # createThreadCalls \/ thread' # thread) =>
           /\ commentPc = "resolved"
           /\ createThreadCalls = 0
           /\ createThreadCalls' = 1
           /\ SubSeq(commentCalls', 1, 2) = <<"getGitApi", "resolveRepositoryId">>
           /\ MatchingEntries # {}
           /\ thread'.changeTrackingId = MatchedEntry.changeTrackingId
           /\ commentCalls' = commentCalls \o <<"getPullRequestIterationChanges", "createThread">>
      /\ \A name \in {"getGitApi", "resolveRepositoryId",
                      "getPullRequestIterationChanges", "createThread"} :
           Occurrences(commentCalls', name) <= 1
      /\ Occurrences(commentCalls', "createThread") = createThreadCalls'
      /\ (commentPc' = "thrown"
          /\ commentError'.source \in {"getGitApi", "resolveRepositoryId", "notInPullRequest",
                                       "getPullRequestIterationChanges"})
           => createThreadCalls' = 0 /\ thread' = <<>>
    ]_vars

\* createThread was called for the second entry of the pull request, the
\* first one with the requested path, and the call was answered
C12_Witness ==
  /\ commentPc = "returned"
  /\ createThreadCalls = 1
  /\ Len(commentEntries) = 2
  /\ thread.changeTrackingId = 2
  /\ commentCalls = <<"getGitApi", "resolveRepositoryId",
                      "getPullRequestIterationChanges", "createThread">>

-----------------------------------------------------------------------------
(* C13 - C16: resolveRepositoryId *)

\* the identifier has the 8-4-4-4-12 hexadecimal shape, in either letter case
HasGuidShape(identifier) ==
  /\ Len(identifier) = 36
  /\ \A i \in {9, 14, 19, 24} : identifier[i] = "-"
  /\ \A i \in (1..36) \ {9, 14, 19, 24} :
       identifier[i] \in {"0", "1", "2", "3", "4", "5", "6", "7", "8", "9",
                          "a", "b", "c", "d", "e", "f", "A", "B", "C", "D", "E", "F"}

\* two names are equal ignoring letter case
SameIgnoringCase(a, b) ==
  /\ Len(a) = Len(b)
  /\ \A i \in 1..Len(a) :
       \/ a[i] = b[i]
       \/ \E n \in 1..26 : {a[i], b[i]} = {UpperCaseLetters[n], LowerCaseLetters[n]}

\* the repositories of a listing that have the requested name
NamedRepositories(repositories, name) ==
  {n \in 1..Len(repositories) :
     repositories[n].name # <<>> /\ SameIgnoringCase(repositories[n].name, name)}

\* the name and the scope of the current call of a caller, as one key
KeyOf(args) == CacheKey(args.repository, args.projectId)

\* C13 (as stated): once a listing has resolved a name in a scope, every call
\* started later with that name and scope returns the ID of that first
\* resolution from the cache, without a list call.
C13_LaterCallsReturnFirstId ==
  \A c \in Callers :
    resolvedBefore[c] =>
      /\ resolvePc[c] = "returned"
      /\ listCalls[c] = 0
      /\ resolveOutcome[c] = firstSuccess[KeyOf(resolveArgs[c])].id

\* C13 (amended): once a listing has resolved a name in a scope while no
\* other call for that name and scope was awaiting its listing, every call
\* started later with that name and scope returns the ID of that first
\* resolution from the cache, without a list call, whatever calls come between
\* and however the remote list changes.
C13_LaterCallsReturnFirstIdUnlessOverlapped ==
  \A c \in Callers :
    (resolvedBefore[c] /\ ~firstSuccess[KeyOf(resolveArgs[c])].overlapped) =>
      /\ resolvePc[c] = "returned"
      /\ listCalls[c] = 0
      /\ resolveOutcome[c] = firstSuccess[KeyOf(resolveArgs[c])].id

\* the third call of the run is answered from the cache with the ID of the
\* first resolution, although the remote now holds another ID for the name
C13_Witness ==
  \E c \in Callers :
    /\ callsStarted = 3
    /\ remoteChanges = 1
    /\ resolvedBefore[c]
    /\ resolvePc[c] = "returned"
    /\ listCalls[c] = 0
    /\ ~HasGuidShape(resolveArgs[c].repository)
    /\ KeyOf(resolveArgs[c]) \in DOMAIN firstSuccess
    /\ ~firstSuccess[KeyOf(resolveArgs[c])].overlapped
    /\ resolveOutcome[c] = firstSuccess[KeyOf(resolveArgs[c])].id
    /\ NamedRepositories(remoteRepositories[ProjectScope(resolveArgs[c].projectId)],
                         resolveArgs[c].repository) # {}
    /\ \A n \in 1..Len(remoteRepositories[ProjectScope(resolveArgs[c].projectId)]) :
         remoteRepositories[ProjectScope(resolveArgs[c].projectId)][n].id # resolveOutcome[c]

\* C14: a call whose identifier has the 8-4-4-4-12 hexadecimal shape, in
\* either letter case, returns the identifier unchanged at once, issues no
\* list call and leaves the cache as it was.
C14_GuidIsReturnedUnchanged ==
  [][ /\ \A c \in Callers :
           (resolveArgs'[c] # <<>> /\ HasGuidShape(resolveArgs'[c].repository)) =>
             /\ resolvePc'[c] = "returned"
             /\ resolveOutcome'[c] = resolveArgs'[c].repository
             /\ listCalls'[c] = 0
      /\ repositoryCache' # repositoryCache =>
           \E c \in Callers :
             /\ resolvePc[c] = "listing"
             /\ resolvePc'[c] = "returned"
             /\ ~HasGuidShape(resolveArgs[c].repository)
             /\ DOMAIN repositoryCache' = DOMAIN repositoryCache \cup {KeyOf(resolveArgs[c])}
             /\ \A k \in DOMAIN repositoryCache \ {KeyOf(resolveArgs[c])} :
                  repositoryCache'[k] = repositoryCache[k] ]_vars

\* an upper-case GUID was returned while the cache held a resolved name
C14_Witness ==
  \E c \in Callers :
    /\ resolvePc[c] = "returned"
    /\ resolveArgs[c].repository = GuidOf("A", "1")
    /\ resolveOutcome[c] = GuidOf("A", "1")
    /\ listCalls[c] = 0
    /\ repositoryCache # <<>>

\* the text holds the piece as consecutive tokens
Contains(text, piece) ==
  \E i \in 0..(Len(text) - Len(piece)) : SubSeq(text, i + 1, i + Len(piece)) = piece

\* C15: when the listing of the project scope holds no repository with the
\* requested name ignoring letter case, the call fails with the not-found
\* error, whose text names the requested repository and every name of the
\* listing, and the cache is left as it was; a call whose key the cache lacks
\* queries the remote.
C15_NotFoundListsNamesAndKeepsCache ==
  [][ \A c \in Callers :
        /\ (/\ resolvePc[c] = "listing"
            /\ resolvePc'[c] # "listing"
            /\ NamedRepositories(remoteRepositories[ProjectScope(resolveArgs[c].projectId)],
                                 resolveArgs[c].repository) = {}
            /\ ListAnswers(c)) =>
             LET repositories == remoteRepositories[ProjectScope(resolveArgs[c].projectId)]
                 error == resolveError'[c]
             IN /\ resolvePc'[c] = "thrown"
                /\ error.kind = "notFound"
                /\ Contains(error.message,
                            <<"Repository '">> \o resolveArgs[c].repository
                            \o <<"' not found in project '">>)
                /\ \A n \in 1..Len(repositories) :
                     Contains(error.message, repositories[n].name)
                /\ repositoryCache' = repositoryCache
        /\ (/\ callsStarted' # callsStarted
            /\ resolvePc'[c] = "returned"
            /\ ~HasGuidShape(resolveArgs'[c].repository)
            /\ KeyOf(resolveArgs'[c]) \notin DOMAIN repositoryCache) => ~ResolveStart(c) ]_vars

\* a call for the name of no repository has failed with the not-found error
\* that lists the two repositories of the project
C15_Witness ==
  \E c \in Callers :
    /\ resolvePc[c] = "thrown"
    /\ resolveError[c].kind = "notFound"
    /\ resolveArgs[c] = [repository |-> <<"N", "o">>, projectId |-> <<>>]
    /\ Len(remoteRepositories[ConfigProject]) = 2
    /\ Contains(resolveError[c].message, <<"L", "i", "b", ", ", "R", "e", "p", "o">>)
    /\ KeyOf(resolveArgs[c]) \notin DOMAIN repositoryCache

\* the ID of the first repository of the listing that has the name, or no
\* ID when the listing has no repository of that name
ListedId(repositories, name) ==
  IF NamedRepositories(repositories, name) = {} THEN <<>>
  ELSE repositories[CHOOSE n \in NamedRepositories(repositories, name) :
                      \A m \in NamedRepositories(repositories, name) : n <= m].id

\* C16: while the repository list is unchanged, every call that resolved a
\* name returned the ID the list holds for it, whatever the interleaving with
\* other calls, after at most one list call of its own, and the cache holds
\* under every key the ID a single call would have stored.
C16_RacingCallsAgree ==
  remoteChanges = 0 =>
    /\ \A c \in Callers :
         (resolvePc[c] = "returned" /\ ~HasGuidShape(resolveArgs[c].repository)) =>
           /\ resolveOutcome[c] =
                ListedId(remoteRepositories[ProjectScope(resolveArgs[c].projectId)],
                         resolveArgs[c].repository)
           /\ listCalls[c] <= 1
           /\ KeyOf(resolveArgs[c]) \in DOMAIN repositoryCache
           /\ repositoryCache[KeyOf(resolveArgs[c])] = resolveOutcome[c]
    /\ \A c \in Callers, d \in Callers :
         (/\ resolvePc[c] = "returned" /\ resolvePc[d] = "returned"
          /\ resolveArgs[c] = resolveArgs[d]) => resolveOutcome[c] = resolveOutcome[d]
    /\ \A k \in DOMAIN repositoryCache :
         \E repository \in RepositoryIdentifiers, projectId \in ProjectIds :
           /\ k = CacheKey(repository, projectId)
           /\ repositoryCache[k] =
                ListedId(remoteRepositories[ProjectScope(projectId)], repository)

\* two calls for the same name and scope have both missed the cache, listed,
\* and returned, and the cache holds the one key
C16_Witness ==
  /\ remoteChanges = 0
  /\ \A c \in Callers : resolvePc[c] = "returned" /\ listCalls[c] = 1
  /\ \A c \in Callers : resolveArgs[c] = [repository |-> <<"r", "e", "p", "o">>,
                                          projectId |-> <<"Q">>]
  /\ DOMAIN repositoryCache = {<<"Q", ":", "r", "e", "p", "o">>}
  /\ \A c \in Callers : resolveOutcome[c] = GuidOf("c", "2")

-----------------------------------------------------------------------------
(* C17: blob content that arrives as a stream *)

\* C17: for content that arrives as a stream, the call fails with the
\* timeout error and the stream is destroyed exactly when the timer fires
\* while the stream has neither ended nor errored; it fails with the error of
\* the stream when the stream errors first; otherwise it returns the text of
\* the bytes of all chunks in arrival order, which is the text of the blob;
\* no failure of the stream gives the placeholder text.
C17_StreamOutcomes ==
  [][ /\ (timeout' = "fired" /\ timeout # "fired") =>
           /\ stream = "open"
           /\ clock >= 30000
           /\ stream' = "destroyed"
           /\ contentOutcome' = [settled |-> "rejected", value |-> StreamTimeoutError]
      /\ stream' = "destroyed" => timeout' = "fired"
      /\ stream' = "errored" =>
           /\ timeout' = "cleared"
           /\ contentOutcome' = [settled |-> "rejected", value |-> StreamError]
      /\ stream' = "ended" =>
           /\ timeout' = "cleared"
           /\ BufferConcat(chunks') = Utf8Encode(remoteBlob')
           /\ contentOutcome' = [settled |-> "fulfilled", value |-> remoteBlob']
      /\ stream' = "open" => contentOutcome' = <<>>
      /\ (stream' \in {"errored", "destroyed"}) =>
           contentOutcome'.settled = "rejected"
      /\ (stream' = "ended" /\ contentOutcome'.settled = "fulfilled") =>
           contentOutcome'.value # ContentNotAvailable ]_vars

\* the stream has ended after the delay of the timer had passed, with a
\* character of two bytes split over two chunks, and the text was returned
C17_Witness ==
  /\ stream = "ended"
  /\ clock = 30000
  /\ remoteBlob = <<"a", "e'", "b">>
  /\ chunks = << <<97, 195>>, <<169, 98>> >>
  /\ contentOutcome = [settled |-> "fulfilled", value |-> <<"a", "e'", "b">>]

-----------------------------------------------------------------------------
(* The selection of the files of a request without a path *)

\* the entries of the result, in the order returned
ReturnedChanges == [n \in 1..Len(batchResult.changeEntries) |->
                      batchResult.changeEntries[n].change]

\* the number of entries of sq equal to e
CountOf(sq, e) == Cardinality({n \in 1..Len(sq) : sq[n] = e})

OfKind(allChanges, kind) == SelectSeq(allChanges, LAMBDA c : c.changeType = kind)

\* the first n entries of sq
FirstOf(sq, n) == [k \in 1..(IF n < Len(sq) THEN n ELSE Len(sq)) |-> sq[k]]

\* the selection in the order stated: the first two Modified, the first two
\* Added, the first Deleted, then the entries not yet selected in the order of
\* the pull request, up to five entries
StatedSelection(allChanges) ==
  LET prioritized == FirstOf(OfKind(allChanges, VersionControlChangeType.Edit), 2)
                       \o FirstOf(OfKind(allChanges, VersionControlChangeType.Add), 2)
                       \o FirstOf(OfKind(allChanges, VersionControlChangeType.Delete), 1)
      others == SelectSeq(allChanges,
                          LAMBDA c : \A n \in 1..Len(prioritized) : prioritized[n] # c)
  IN FirstOf(prioritized \o others, 5)

\* C19 (as claimed): for a request without a path, the files processed are, in
\* this order, the first two Modified entries, the first two Added entries,
\* the first Deleted entry, and then the remaining entries in the order of the
\* pull request until five are selected
C19_SelectionFollowsStatedOrder ==
  (batchPc \in {"running", "returned"} /\ batchPath = <<>>) =>
    [n \in 1..Len(tasks) |-> tasks[n].change] = StatedSelection(batchEntries)

\* C20 (as claimed): the codes 1, 2 and 3 tested by the renderer denote the
\* kinds Add, Edit and Delete of VersionControlChangeType, so that every
\* returned entry of kind Delete with an original blob, whose fetches went
\* well, carries the rendering of a deleted file
C20_DeletedEntriesGetDeletedRendering ==
  /\ VersionControlChangeType.Add = 1
  /\ VersionControlChangeType.Edit = 2
  /\ batchPc = "returned" =>
       \A n \in 1..Len(tasks) :
         ( /\ tasks[n].change.changeType = VersionControlChangeType.Delete
           /\ tasks[n].change.originalObjectId # ""
           /\ FetchedCleanly(tasks[n]) ) =>
           batchResult.changeEntries[n].diffContent =
             calculateDeletedFileDiff(BlobText(tasks[n].change.originalObjectId),
                                      tasks[n].change.path)

-----------------------------------------------------------------------------
(* The segments of findMeaningfulChanges *)

\* C21: at every point of a call the segments pushed so far are in strictly
\* increasing order of original start line, and no two of them overlap, neither
\* in their original-side ranges nor in their current-side ranges
C21_SegmentsIncreaseAndNeverOverlap ==
  \A i \in 1..Len(segments) : \A j \in 1..Len(segments) :
    i < j =>
      /\ segments[i].originalStart < segments[j].originalStart
      /\ segments[i].originalEnd < segments[j].originalStart
      /\ segments[i].currentEnd < segments[j].currentStart

C21_Witness ==
  /\ findPc = "returned"
  /\ Len(segments) = 3
  /\ segments[1].type = "added"

\* C22 (as claimed): every segment has 1-based inclusive bounds inside its
\* sequences, on both sides, also when one sequence is already exhausted
C22_SegmentBoundsInsideSequences ==
  \A n \in 1..Len(segments) :
    /\ 1 <= segments[n].originalStart
    /\ segments[n].originalStart <= segments[n].originalEnd
    /\ segments[n].originalEnd <= Len(findOriginalLines)
    /\ 1 <= segments[n].currentStart
    /\ segments[n].currentStart <= segments[n].currentEnd
    /\ segments[n].currentEnd <= Len(findCurrentLines)

\* the lines at the 0-based positions oi and ci exist and are equal after
\* normalization
EqualLinesAt(oi, ci) ==
  /\ oi < Len(findOriginalLines)
  /\ ci < Len(findCurrentLines)
  /\ normalizeLineForComparison(findOriginalLines[oi + 1])
       = normalizeLineForComparison(findCurrentLines[ci + 1])

\* the offset pair <<o1, c1>> is examined before the pair <<o2, c2>>
ExaminedBefore(o1, c1, o2, c2) ==
  \/ o1 + c1 < o2 + c2
  \/ (o1 + c1 = o2 + c2 /\ o1 < o2)

\* C23: an iteration that finds a match has stopped at the first offset pair,
\* by increasing total 1..5 and then by increasing original-side offset, whose
\* lines are in bounds and equal after normalization; the segment pushed is
\* Added over the currOffset current lines when origOffset is 0, Removed over
\* the origOffset original lines when currOffset is 0 and Modified over both
\* ranges otherwise, and the cursors have advanced by exactly these offsets;
\* an iteration that pushes the remaining lines has found no such pair
C23_FirstMatchInScanOrderDecides ==
  LET it == lastIteration
      so == it.changeStartOriginal
      sc == it.changeStartCurrent
      Pairs == {pr \in (0..5) \X (0..5) : pr[1] + pr[2] \in 1..5}
  IN /\ it.kind \in {"match", "remaining"} => ~EqualLinesAt(so, sc)
     /\ it.kind = "remaining" =>
          \A pr \in Pairs : ~EqualLinesAt(so + pr[1], sc + pr[2])
     /\ it.kind = "match" =>
          LET o == it.origOffset
              c == it.currOffset
              seg == segments[Len(segments)]
          IN /\ <<o, c>> \in Pairs
             /\ EqualLinesAt(so + o, sc + c)
             /\ \A pr \in Pairs :
                  ExaminedBefore(pr[1], pr[2], o, c) => ~EqualLinesAt(so + pr[1], sc + pr[2])
             /\ seg.type = (IF o = 0 THEN "added" ELSE IF c = 0 THEN "removed" ELSE "modified")
             /\ o > 0 => (seg.originalStart = so + 1 /\ seg.originalEnd = so + o)
             /\ c > 0 => (seg.currentStart = sc + 1 /\ seg.currentEnd = sc + c)
             /\ originalIndex = so + o
             /\ currentIndex = sc + c

C23_Witness ==
  /\ lastIteration.kind = "match"
  /\ lastIteration.origOffset = 2
  /\ lastIteration.currOffset = 1
  /\ segments[Len(segments)].type = "modified"

\* the original lines that lie in a Removed or Modified segment, and the
\* current lines that lie in an Added or Modified segment
SegmentsOverOriginal(k) ==
  {n \in 1..Len(segments) : /\ segments[n].type \in {"removed", "modified"}
                            /\ segments[n].originalStart <= k
                            /\ k <= segments[n].originalEnd}

SegmentsOverCurrent(k) ==
  {n \in 1..Len(segments) : /\ segments[n].type \in {"added", "modified"}
                            /\ segments[n].currentStart <= k
                            /\ k <= segments[n].currentEnd}

\* the line numbers 1..n that satisfy Keep, in increasing order
NumbersWhere(n, Keep(_)) == SelectSeq([k \in 1..n |-> k], Keep)

\* C24: the result is a complete edit script: no line lies in two segments,
\* the original lines outside every Removed and Modified segment and the
\* current lines outside every Added and Modified segment are equally many and
\* pairwise equal after normalization, in order; and an iteration that finds
\* no match pushes one last segment over all remaining lines of each sequence
\* that still has lines, and the call returns
C24_CompleteEditScript ==
  /\ findPc = "returned" =>
       LET unpairedO(k) == SegmentsOverOriginal(k) = {}
           unpairedC(k) == SegmentsOverCurrent(k) = {}
           keptO == NumbersWhere(Len(findOriginalLines), unpairedO)
           keptC == NumbersWhere(Len(findCurrentLines), unpairedC)
       IN /\ \A k \in 1..Len(findOriginalLines) : Cardinality(SegmentsOverOriginal(k)) <= 1
          /\ \A k \in 1..Len(findCurrentLines) : Cardinality(SegmentsOverCurrent(k)) <= 1
          /\ Len(keptO) = Len(keptC)
          /\ \A n \in 1..Len(keptO) :
               normalizeLineForComparison(findOriginalLines[keptO[n]])
                 = normalizeLineForComparison(findCurrentLines[keptC[n]])
  /\ lastIteration.kind = "remaining" =>
       LET so == lastIteration.changeStartOriginal
           sc == lastIteration.changeStartCurrent
           seg == segments[Len(segments)]
       IN /\ findPc = "returned"
          /\ so < Len(findOriginalLines) =>
               /\ seg.type \in {"removed", "modified"}
               /\ seg.originalStart = so + 1
               /\ seg.originalEnd = Len(findOriginalLines)
          /\ sc < Len(findCurrentLines) =>
               /\ seg.type \in {"added", "modified"}
               /\ seg.currentStart = sc + 1
               /\ seg.currentEnd = Len(findCurrentLines)
          /\ so >= Len(findOriginalLines) => seg.type = "added"
          /\ sc >= Len(findCurrentLines) => seg.type = "removed"

C24_Witness ==
  /\ findPc = "returned"
  /\ lastIteration.kind = "remaining"
  /\ Len(segments) = 2
  /\ segments[2].type = "modified"
  /\ segments[2].currentEnd > segments[2].currentStart

\* C27: a call of findMeaningfulChanges returns: every iteration of the outer
\* loop advances at least one cursor or pushes a last segment and stops, the
\* number of iterations never exceeds the number of lines of both sequences,
\* and a call that was made eventually returns
C27_FindTerminates ==
  /\ [][ (iterations' # iterations) =>
           \/ originalIndex' > originalIndex
           \/ currentIndex' > currentIndex
           \/ (findPc' = "returned" /\ Len(segments') = Len(segments) + 1) ]_vars
  /\ [](iterations <= Len(findOriginalLines) + Len(findCurrentLines))
  /\ (findPc = "loop") ~> (findPc = "returned")

C27_Witness ==
  /\ findPc = "returned"
  /\ iterations = 3
  /\ lastIteration.kind = "identical"

-----------------------------------------------------------------------------
(* The hunks of calculateUnifiedDiff *)

\* the positions, in the entries of the diff, of the lines of the n-th hunk
\* below its header
HunkBody(entries, n) ==
  LET headers == SelectSeq([k \in 1..Len(entries) |-> k],
                           LAMBDA k : entries[k].kind = "hunk")
      last == IF n < Len(headers) THEN headers[n + 1] - 1 ELSE Len(entries)
  IN SelectSeq([k \in 1..Len(entries) |-> k],
               LAMBDA k : /\ headers[n] < k
                          /\ k <= last
                          /\ entries[k].kind \in {"context", "removed", "added"})

\* the original line with 0-based index i lies in the changed range of a segment
InChangedRange(segs, i) ==
  \E n \in 1..Len(segs) :
    /\ segs[n].type \in {"removed", "modified"}
    /\ segs[n].originalStart - 1 <= i
    /\ i <= segs[n].originalEnd - 1

\* the original lines from..to (1-based, clamped to the file) as context lines
ContextOf(O, from, to) ==
  LET lo == IF from < 1 THEN 1 ELSE from
      hi == IF to > Len(O) THEN Len(O) ELSE to
  IN [k \in 1..(hi - lo + 1) |-> <<SP>> \o O[lo + k - 1]]

\* C25 (as claimed): in every hunk each line with the context prefix is an
\* unchanged line, the context before the changed lines is the up-to-3
\* original lines immediately before the segment, and the context after them
\* is the up-to-3 original lines immediately after it, clamped to the file
C25_ContextIsUnchangedNeighbourLines ==
  (diffPc = "done" /\ changes # <<>>) =>
    LET entries == UnifiedDiffEntries(originalContent, currentContent, FilePath)
        O == SplitLines(originalContent)
    IN \A n \in 1..Len(changes) :
         LET body == HunkBody(entries, n)
             sg == changes[n]
             changed == {k \in 1..Len(body) : entries[body[k]].kind # "context"}
             before == SelectSeq(body, LAMBDA p : /\ entries[p].kind = "context"
                                                  /\ \A k \in changed : p < body[k])
             after == SelectSeq(body, LAMBDA p : /\ entries[p].kind = "context"
                                                 /\ \A k \in changed : p > body[k])
             \* the last original line before the segment, the first after it
             lastBefore == sg.originalStart - 1
             firstAfter == IF sg.type = "added" THEN sg.originalStart
                           ELSE sg.originalEnd + 1
         IN /\ \A k \in 1..Len(body) :
                 entries[body[k]].kind = "context" =>
                   ~InChangedRange(changes, entries[body[k]].orig)
            /\ [k \in 1..Len(before) |-> entries[before[k]].text]
                 = ContextOf(O, lastBefore - 2, lastBefore)
            /\ [k \in 1..Len(after) |-> entries[after[k]].text]
                 = ContextOf(O, firstAfter, firstAfter + 2)

\* C26 (as claimed): in the header `@@ -a,b +c,d @@` of every hunk, a is the
\* original line number of the first original-side line shown and b the
\* number of original-side lines shown (context and removed lines), and c and
\* d are the same for the current side (context and added lines)
C26_HeaderCountsTheLinesShown ==
  (diffPc = "done" /\ changes # <<>>) =>
    LET entries == UnifiedDiffEntries(originalContent, currentContent, FilePath)
        lines == SplitLines(unifiedDiff)
    IN \A n \in 1..Len(changes) :
         LET body == HunkBody(entries, n)
             header == lines[body[1] - 1]
             shownO == SelectSeq(body, LAMBDA p : entries[p].kind \in {"context", "removed"})
             shownC == SelectSeq(body, LAMBDA p : entries[p].kind \in {"context", "added"})
             a == IF shownO = <<>> THEN changes[n].originalStart
                  ELSE entries[shownO[1]].orig + 1
             c == IF shownC = <<>> THEN changes[n].currentStart
                  ELSE IF entries[shownC[1]].kind = "added"
                  THEN entries[shownC[1]].curr + 1
                  ELSE PairedCurrentLine(changes, entries[shownC[1]].orig)
         IN header = HunkHeader(a, Len(shownO), c, Len(shownC))

-----------------------------------------------------------------------------
(* The settling of a streamed blob fetch *)

\* C28: a streamed fetch eventually settles even when the stream never ends
\* or errors, and it settles once: an outcome that was reported never
\* changes, whatever data, end or error event is handled after the timer
\* fired; the timer is cleared in the step in which the stream ends or errors,
\* and a cleared timer never fires
C28_StreamedFetchSettlesOnce ==
  /\ (contentPc = "streaming") ~> (contentPc = "settled" /\ contentOutcome # <<>>)
  /\ [][contentOutcome # <<>> => contentOutcome' = contentOutcome]_vars
  /\ [][(stream = "open" /\ stream' \in {"ended", "errored"}) => timeout' = "cleared"]_vars
  /\ [][timeout = "cleared" => timeout' = "cleared"]_vars

C28_Witness ==
  /\ timeout = "fired"
  /\ lateEvents = {"data", "end"}
  /\ Len(chunks) >= 2
  /\ contentOutcome = StreamFailure("stream_timeout", StreamTimeoutError)

-----------------------------------------------------------------------------
(* The error for a file that is not part of the pull request *)

\* C29 (as claimed): when no change entry has the requested path, compared
\* after one leading slash is removed, the call fails with the error that says
\* the file is not part of the changes, and this error reaches the caller as
\* it was thrown, not rewritten into the diagnostic for an invalid line position
C29_NotInPullRequestErrorIsNotRewritten ==
  (commentPc = "thrown" /\ commentError.source = "notInPullRequest") =>
    /\ MatchingEntries = {}
    /\ "not part of the changes" \in MessagePhrases(commentError)
    /\ ~commentError.translated
    /\ commentError = NotInPullRequestError

-----------------------------------------------------------------------------
(* The markers of removed and added lines *)

\* C30 (as claimed): in the annotated diff of a Modified file every removed
\* line carries a left marker and every added line a right marker, whatever
\* the text of the line is, and each of them advances the counter of its side:
\* of two removed lines, or two added lines, that follow each other the second
\* carries the number after the number of the first
C30_EveryChangedLineIsMarked ==
  diffPc = "done" =>
    LET entries == UnifiedDiffEntries(originalContent, currentContent, FilePath)
        marker(n) == MarkerOf(AnnotatedLine(entries, n))
    IN \A n \in 1..Len(entries) :
         /\ entries[n].kind = "removed" => (marker(n) # <<>> /\ marker(n)[1] = "left")
         /\ entries[n].kind = "added" => (marker(n) # <<>> /\ marker(n)[1] = "right")
         /\ ( /\ n < Len(entries)
              /\ entries[n].kind \in {"removed", "added"}
              /\ entries[n + 1].kind = entries[n].kind )
            => ( /\ marker(n) # <<>>
                 /\ marker(n + 1) # <<>>
                 /\ marker(n + 1)[2] = marker(n)[2] + 1 )

====
